---- MODULE Spec2Model ----
(***************************************************************************)
(* Model of the M&A analyzer backend: the valuation functions of           *)
(* backend/valuation.py, the pairing engine of backend/pairing.py and the  *)
(* dcf / comps request handlers of backend/api/main.py.                    *)
(*                                                                         *)
(* Python floats are modelled as exact rationals <<n, d>> (d > 0, lowest   *)
(* terms).  Roots and powers, which leave the rationals, are rounded down  *)
(* to 1/Scale.  A Python call's outcome is a record: [exc |-> "None",      *)
(* val |-> v] for a return, [exc |-> "KeyError"] etc. for a raise.         *)
(***************************************************************************)
EXTENDS Integers, Sequences, FiniteSets, TLC

VARIABLES
    inp,        \* arguments of the stateless call under way
    out,        \* its outcome
    financials, \* store: company id -> set of income statements
    cache,      \* lru_cache of _get_cached_financials: company id -> entry
    dealPairs,  \* store: set of DealPair rows
    run,        \* the generate_top_pairs call in progress
    calls,      \* log of the score_pair calls made so far
    nruns,      \* number of generate_top_pairs calls started
    requests,   \* RateLimitMiddleware.requests: client ip -> timestamps
    now,        \* the reading of datetime.now(), in seconds
    admitted,   \* log: client ip -> times of the requests passed on
    reply        \* what the rate limiter did with the last request

vars ==
    <<inp, out, financials, cache, dealPairs, run, calls, nruns,
      requests, now, admitted, reply>>

storeVars == <<financials, cache, dealPairs, run, calls, nruns>>

rateVars == <<requests, now, admitted, reply>>

---------------------------------------------------------------------------
(* Rational arithmetic *)

Abs(x) == IF x < 0 THEN -x ELSE x

RECURSIVE GCD(_, _)
GCD(a, b) == IF b = 0 THEN a ELSE GCD(b, a % b)

\* the pair p = <<n, d>> in lowest terms with a positive denominator
Reduce(p) ==
    LET s == IF p[2] < 0 THEN -1 ELSE 1
        g == GCD(Abs(p[1]), Abs(p[2]))
    IN  <<(s * p[1]) \div g, (s * p[2]) \div g>>

\* n / d (the arguments are bound to p so that each is evaluated once)
Q(n, d) == CHOOSE q \in {Reduce(p) : p \in {<<n, d>>}} : TRUE

I(n) == <<n, 1>>
QAdd(a, b) ==
    CHOOSE q \in {Reduce(<<p[1][1] * p[2][2] + p[2][1] * p[1][2], p[1][2] * p[2][2]>>) :
                     p \in {<<a, b>>}} : TRUE
QSub(a, b) ==
    CHOOSE q \in {Reduce(<<p[1][1] * p[2][2] - p[2][1] * p[1][2], p[1][2] * p[2][2]>>) :
                     p \in {<<a, b>>}} : TRUE
QMul(a, b) ==
    CHOOSE q \in {Reduce(<<p[1][1] * p[2][1], p[1][2] * p[2][2]>>) :
                     p \in {<<a, b>>}} : TRUE
QDiv(a, b) ==
    CHOOSE q \in {Reduce(<<p[1][1] * p[2][2], p[1][2] * p[2][1]>>) :
                     p \in {<<a, b>>}} : TRUE
QLt(a, b) == a[1] * b[2] < b[1] * a[2]
QLe(a, b) == a[1] * b[2] <= b[1] * a[2]
QAbs(a) == <<Abs(a[1]), a[2]>>
\* Python's max(a, b) and min(a, b): the first argument wins a tie.
QMax(a, b) == IF QLt(a, b) THEN b ELSE a
QMin(a, b) == IF QLt(b, a) THEN b ELSE a
QZero == I(0)
QOne == I(1)

RECURSIVE QSum(_)
QSum(s) == IF s = <<>> THEN QZero ELSE QAdd(Head(s), QSum(Tail(s)))

---------------------------------------------------------------------------
(* Python call outcomes *)

Ok(v) == [exc |-> "None", val |-> v]
Raise(e) == [exc |-> e]
Returned(r) == r.exc = "None"

---------------------------------------------------------------------------
(* pairing.py: _size_score *)

NoneCap == -1000   \* stands for a market_cap of None

IDEAL_MIN == Q(10, 100)
IDEAL_MAX == Q(50, 100)
ABSOLUTE_MIN == Q(5, 100)
ABSOLUTE_MAX == Q(70, 100)

\* _size_score with the upper falloff not subtracted from 1
SizeScoreFalloffSwapped(acq_cap, tgt_cap) ==
    IF acq_cap = NoneCap \/ tgt_cap = NoneCap \/ acq_cap = 0 \/ tgt_cap = 0
       \/ acq_cap <= 0 \/ tgt_cap <= 0
    THEN QZero
    ELSE LET ratio == Q(tgt_cap, acq_cap) IN
         IF QLt(ratio, ABSOLUTE_MIN) \/ QLt(ABSOLUTE_MAX, ratio) THEN QZero
         ELSE IF QLe(IDEAL_MIN, ratio) /\ QLe(ratio, IDEAL_MAX) THEN QOne
         ELSE IF QLt(ratio, IDEAL_MIN)
              THEN QDiv(QSub(ratio, ABSOLUTE_MIN), QSub(IDEAL_MIN, ABSOLUTE_MIN))
              ELSE QDiv(QSub(ratio, IDEAL_MAX), QSub(ABSOLUTE_MAX, IDEAL_MAX))

_size_score(acq_cap, tgt_cap) ==
    IF acq_cap = NoneCap \/ tgt_cap = NoneCap \/ acq_cap = 0 \/ tgt_cap = 0
       \/ acq_cap <= 0 \/ tgt_cap <= 0
    THEN QZero
    ELSE LET ratio == Q(tgt_cap, acq_cap) IN
         IF QLt(ratio, ABSOLUTE_MIN) \/ QLt(ABSOLUTE_MAX, ratio) THEN QZero
         ELSE IF QLe(IDEAL_MIN, ratio) /\ QLe(ratio, IDEAL_MAX) THEN QOne
         ELSE IF QLt(ratio, IDEAL_MIN)
              THEN QDiv(QSub(ratio, ABSOLUTE_MIN), QSub(IDEAL_MIN, ABSOLUTE_MIN))
              ELSE QSub(QOne, QDiv(QSub(ratio, IDEAL_MAX),
                                   QSub(ABSOLUTE_MAX, IDEAL_MAX)))

---------------------------------------------------------------------------
(* Sector strings.  A str is its letters in lower case (`text`), whether   *)
(* it has surrounding blanks (`pad`) and whether it has capitals (`caps`); *)
(* None is a value of its own.                                             *)

PyStr(text, pad, caps) == [none |-> FALSE, text |-> text, pad |-> pad, caps |-> caps]
PyNone == [none |-> TRUE, text |-> "", pad |-> FALSE, caps |-> FALSE]

\* `not s`: None and the empty string
Falsy(s) == s.none \/ (s.text = "" /\ ~s.pad)

\* s.strip().lower()
StripLower(s) == [s EXCEPT !.pad = FALSE, !.caps = FALSE]

\* `sector or ""`
OrEmpty(s) == IF Falsy(s) THEN PyStr("", FALSE, FALSE) ELSE s

ADJACENT_SECTORS ==
    ("technology" :> {"communications", "consumer cyclical"})
    @@ ("healthcare" :> {"technology", "consumer defensive"})
    @@ ("financial" :> {"technology", "real estate"})
    @@ ("consumer cyclical" :> {"technology", "consumer defensive"})
    @@ ("industrial" :> {"technology", "materials"})

COMPLEMENTARY ==
    ("technology" :>
        (("software" :> {"semiconductors", "hardware"})
         @@ ("hardware" :> {"software", "semiconductors"})
         @@ ("semiconductors" :> {"hardware", "software"})))

\* the same-sector branch: both industries given, or not
SameSectorScore(sector, acq_industry, tgt_industry) ==
    IF ~Falsy(acq_industry) /\ ~Falsy(tgt_industry)
    THEN IF StripLower(acq_industry) = StripLower(tgt_industry) THEN QOne
         ELSE IF /\ sector \in DOMAIN COMPLEMENTARY
                 /\ StripLower(acq_industry).text \in DOMAIN COMPLEMENTARY[sector]
                 /\ StripLower(tgt_industry).text
                        \in COMPLEMENTARY[sector][StripLower(acq_industry).text]
         THEN Q(8, 10)
         ELSE Q(6, 10)
    ELSE Q(7, 10)

\* the score table with the adjacency table read in either direction
SectorScoreSymmetric(acq_sector, tgt_sector, acq_industry, tgt_industry) ==
    IF Falsy(acq_sector) \/ Falsy(tgt_sector) THEN QZero
    ELSE IF StripLower(acq_sector) = StripLower(tgt_sector)
    THEN SameSectorScore(StripLower(acq_sector).text, acq_industry, tgt_industry)
    ELSE IF \/ /\ StripLower(acq_sector).text \in DOMAIN ADJACENT_SECTORS
               /\ StripLower(tgt_sector).text
                      \in ADJACENT_SECTORS[StripLower(acq_sector).text]
            \/ /\ StripLower(tgt_sector).text \in DOMAIN ADJACENT_SECTORS
               /\ StripLower(acq_sector).text
                      \in ADJACENT_SECTORS[StripLower(tgt_sector).text]
    THEN Q(3, 10)
    ELSE QZero

_sector_score(acq_sector, tgt_sector, acq_industry, tgt_industry) ==
    IF Falsy(acq_sector) \/ Falsy(tgt_sector) THEN QZero
    ELSE IF StripLower(acq_sector) = StripLower(tgt_sector)
    THEN SameSectorScore(StripLower(acq_sector).text, acq_industry, tgt_industry)
    ELSE IF /\ StripLower(acq_sector).text \in DOMAIN ADJACENT_SECTORS
            /\ StripLower(tgt_sector).text
                   \in ADJACENT_SECTORS[StripLower(acq_sector).text]
    THEN Q(3, 10)
    ELSE QZero

---------------------------------------------------------------------------
(* Financial statements.  A statement is [year, data]; data models the     *)
(* JSON column: `top` are its top-level entries other than "values",       *)
(* `hasValues` tells whether the "values" key is present and `values` are  *)
(* the entries of that sub-dict, in insertion order.  An entry is          *)
(* [k, ty, v]: ty = "num" for a number v, "str" for a non-numeric string.  *)

Num(k, v) == [k |-> k, ty |-> "num", v |-> v]
Bad(k) == [k |-> k, ty |-> "str", v |-> 0]

Stmt(y, vals) ==
    [year |-> y, data |-> [top |-> <<>>, hasValues |-> TRUE, values |-> vals]]
FlatStmt(y, tops) ==
    [year |-> y, data |-> [top |-> tops, hasValues |-> FALSE, values |-> <<>>]]

\* fin.data.get("values", {})
ValuesOf(f) == IF f.data.hasValues THEN f.data.values ELSE <<>>

HasKey(entries, key) == \E i \in 1..Len(entries) : entries[i].k = key

\* float(v): a number converts, a non-numeric string raises ValueError
PyFloat(e) == IF e.ty = "num" THEN Ok(I(e.v)) ELSE Raise("ValueError")

\* float(d.get(key, 0)) on the entries of a dict
GetFloat(entries, key) ==
    IF HasKey(entries, key)
    THEN PyFloat(entries[CHOOSE i \in 1..Len(entries) : entries[i].k = key])
    ELSE Ok(QZero)

\* `sub in key.lower()` on the keys the statements of this model use
Contains(sub, key) ==
    CASE sub = "revenue" -> key \in {"Revenue", "Total Revenue", "Cost Of Revenue"}
      [] sub = "sales" -> key \in {"Net Sales"}
      [] sub = "ebitda" -> key \in {"EBITDA"}
      [] sub = "net income" -> key \in {"Net Income"}
      [] sub = "operating cash flow" -> key \in {"Operating Cash Flow"}
      [] sub = "growth" -> key \in {"revenue_growth", "ebitda_growth"}
      [] sub = "cagr" -> key \in {"revenue_cagr"}
      [] OTHER -> FALSE

RECURSIVE InsertByYear(_, _)
\* stable insertion of pair p = <<year, value>> into a list sorted by year
InsertByYear(sorted, p) ==
    IF sorted = <<>> THEN <<p>>
    ELSE IF p[1] < Head(sorted)[1] THEN <<p>> \o sorted
    ELSE <<Head(sorted)>> \o InsertByYear(Tail(sorted), p)

RECURSIVE SortByYear(_)
\* list.sort(key=lambda x: x[0]): stable, ascending by year
SortByYear(s) ==
    IF s = <<>> THEN <<>>
    ELSE InsertByYear(SortByYear(SubSeq(s, 1, Len(s) - 1)), s[Len(s)])

---------------------------------------------------------------------------
(* Roots and clamps *)

Scale == 100

RECURSIVE Pw(_, _)
Pw(b, e) == IF e = 0 THEN 1 ELSE b * Pw(b, e - 1)

RECURSIVE PowLe(_, _, _)
\* r^n <= M for r >= 0, without forming r^n
PowLe(r, n, M) ==
    IF n = 0 THEN 1 <= M
    ELSE IF r = 0 THEN 0 <= M
    ELSE PowLe(r, n - 1, M \div r)

RECURSIVE Bisect(_, _, _, _)
\* the largest r in lo..(hi - 1) with r^n <= M, given lo^n <= M < hi^n
Bisect(lo, hi, n, M) ==
    IF hi - lo <= 1 THEN lo
    ELSE LET mid == (lo + hi) \div 2 IN
         IF PowLe(mid, n, M) THEN Bisect(mid, hi, n, M)
         ELSE Bisect(lo, mid, n, M)

\* q ** (1/n) for q >= 0 and n >= 1, rounded down to 1/Scale
Root(q, n) ==
    IF n = 1 THEN q
    ELSE Q(Bisect(0, Scale * (q[1] \div q[2] + 1) + 1, n,
                  (q[1] * Pw(Scale, n)) \div q[2]),
           Scale)

RECURSIVE LongDiv(_, _, _, _)
\* k more decimal digits of the quotient q with remainder r of a division by d
LongDiv(q, r, d, k) ==
    IF k = 0 THEN q
    ELSE LongDiv(10 * q + (10 * r) \div d, (10 * r) % d, d, k - 1)

\* x rounded down to k decimal places (x is bound to v so that it is
\* evaluated once, before the division)
Fix(x, k) ==
    CHOOSE r \in {Q(LongDiv(v[1] \div v[2], v[1] % v[2], v[2], k), Pw(10, k)) :
                     v \in {x}} : TRUE

\* a product of amounts, kept to two decimal places
FMul(a, b) == Fix(QMul(a, b), 2)

RECURSIVE FPow(_, _)
\* b ** e for an integer e >= 0, kept to four decimal places
FPow(b, e) == IF e = 0 THEN QOne ELSE Fix(QMul(b, FPow(b, e - 1)), 4)

\* base ** (1/years), years > 0: a negative base with a fractional exponent
\* gives a complex number
PyRootPow(base, years) ==
    IF base[1] < 0 /\ years > 1 THEN [ty |-> "complex"]
    ELSE IF base[1] < 0 THEN [ty |-> "float", v |-> base]
    ELSE [ty |-> "float", v |-> Root(base, years)]

LOWER == Q(-5, 10)
UPPER == I(1)

\* the clamp without its upper limit
ClampGrowthNoUpper(x) ==
    IF x.ty = "complex" THEN Raise("TypeError")
    ELSE Ok(QMax(LOWER, x.v))

\* max(-0.5, min(1.0, x)): ordering a complex number raises TypeError
ClampGrowth(x) ==
    IF x.ty = "complex" THEN Raise("TypeError")
    ELSE Ok(QMax(LOWER, QMin(UPPER, x.v)))

Float(q) == [ty |-> "float", v |-> q]

---------------------------------------------------------------------------
(* pairing.py: _calculate_growth_metrics *)

\* the (year, value) pairs of one metric: every entry of every statement
\* whose value converts and whose key is classified as `metric`
MetricOf(k) ==
    IF Contains("revenue", k) \/ Contains("sales", k) THEN "revenue"
    ELSE IF Contains("ebitda", k) THEN "ebitda"
    ELSE IF Contains("net income", k) THEN "net_income"
    ELSE IF Contains("operating cash flow", k) THEN "operating_cash_flow"
    ELSE "none"

RECURSIVE EntriesOf(_, _, _)
EntriesOf(year, entries, metric) ==
    IF entries = <<>> THEN <<>>
    ELSE LET e == Head(entries) IN
         (IF Returned(PyFloat(e)) /\ MetricOf(e.k) = metric
          THEN <<(<<year, I(e.v)>>)>> ELSE <<>>)
         \o EntriesOf(year, Tail(entries), metric)

RECURSIVE Series(_, _)
Series(fins, metric) ==
    IF fins = <<>> THEN <<>>
    ELSE EntriesOf(Head(fins).year, ValuesOf(Head(fins)), metric)
         \o Series(Tail(fins), metric)

Last(s) == s[Len(s)]

\* next((v[1] for v in series if v[0] == year), dflt)
FirstOfYear(series, year, dflt) ==
    IF \E i \in 1..Len(series) : series[i][1] = year
    THEN series[CHOOSE i \in 1..Len(series) :
                   /\ series[i][1] = year
                   /\ \A j \in 1..(i - 1) : series[j][1] # year][2]
    ELSE dflt

GrowthZeros ==
    [revenue_growth |-> QZero, revenue_cagr |-> QZero, ebitda_margin |-> QZero,
     ebitda_growth |-> QZero, net_margin |-> QZero, margin_trend |-> QZero]

RECURSIVE Margins(_, _)
Margins(rev, ni) ==
    IF rev = <<>> THEN <<>>
    ELSE LET year == Head(rev)[1]
             r == Head(rev)[2]
             has == \E i \in 1..Len(ni) : ni[i][1] = year
         IN  (IF has /\ QLt(QZero, r)
              THEN <<QDiv(FirstOfYear(ni, year, QZero), r)>> ELSE <<>>)
             \o Margins(Tail(rev), ni)

_calculate_growth_metrics(fins) ==
    IF Len(fins) < 2 THEN Ok(GrowthZeros)
    ELSE
    LET revenue == SortByYear(Series(fins, "revenue"))
        ebitda == SortByYear(Series(fins, "ebitda"))
        net_income == SortByYear(Series(fins, "net_income"))
        nr == Len(revenue)
        ne == Len(ebitda)
        latest_rev == revenue[nr][2]
        prev_rev == revenue[nr - 1][2]
        first_rev == revenue[1][2]
        years == revenue[nr][1] - revenue[1][1]
        revenue_growth ==
            IF nr >= 2 /\ QLt(QZero, prev_rev)
            THEN Float(QSub(QDiv(latest_rev, prev_rev), QOne)) ELSE Float(QZero)
        revenue_cagr ==
            IF nr >= 2 /\ years > 0 /\ QLt(QZero, first_rev)
            THEN LET p == PyRootPow(QDiv(latest_rev, first_rev), years) IN
                 IF p.ty = "complex" THEN p ELSE Float(QSub(p.v, QOne))
            ELSE Float(QZero)
        latest_ebitda == FirstOfYear(ebitda, revenue[nr][1], QZero)
        ebitda_margin ==
            IF nr > 0 /\ ne > 0 /\ QLt(QZero, revenue[nr][2])
            THEN QDiv(latest_ebitda, revenue[nr][2]) ELSE QZero
        ebitda_growth ==
            IF nr > 0 /\ ne >= 2 /\ QLt(QZero, ebitda[ne - 1][2])
            THEN Float(QSub(QDiv(ebitda[ne][2], ebitda[ne - 1][2]), QOne))
            ELSE Float(QZero)
        margins == IF nr > 0 /\ Len(net_income) > 0
                   THEN Margins(revenue, net_income) ELSE <<>>
        nm == Len(margins)
        margin_trend == IF nm >= 2 THEN QDiv(QSub(margins[nm], margins[1]), I(nm))
                        ELSE QZero
        net_margin == IF nm >= 2 THEN margins[nm] ELSE QZero
        \* the clamp loop visits revenue_growth, revenue_cagr, ebitda_growth
        g == ClampGrowth(revenue_growth)
        c == ClampGrowth(revenue_cagr)
        e == ClampGrowth(ebitda_growth)
    IN  IF ~Returned(g) THEN g
        ELSE IF ~Returned(c) THEN c
        ELSE IF ~Returned(e) THEN e
        ELSE Ok([revenue_growth |-> g.val, revenue_cagr |-> c.val,
                 ebitda_margin |-> ebitda_margin, ebitda_growth |-> e.val,
                 net_margin |-> net_margin, margin_trend |-> margin_trend])

---------------------------------------------------------------------------
(* valuation.py: _calculate_historical_growth *)

RECURSIVE PositiveRevenues(_)
\* (fin.year, revenue) for the statements with Revenue > 0; "raise" when a
\* Revenue value does not convert
PositiveRevenues(fins) ==
    IF fins = <<>> THEN Ok(<<>>)
    ELSE LET r == GetFloat(ValuesOf(Head(fins)), "Revenue")
             rest == PositiveRevenues(Tail(fins))
         IN  IF ~Returned(r) THEN r
             ELSE IF ~Returned(rest) THEN rest
             ELSE Ok((IF QLt(QZero, r.val) THEN <<(<<Head(fins).year, r.val>>)>>
                      ELSE <<>>) \o rest.val)

_calculate_historical_growth(fins) ==
    LET rs == PositiveRevenues(fins) IN
    IF ~Returned(rs) THEN QZero          \* except Exception: logged, 0.0
    ELSE LET revenues == SortByYear(rs.val)
             n == Len(revenues)
             years == revenues[n][1] - revenues[1][1]
         IN  IF n >= 2 /\ years > 0
             THEN LET cagr == QSub(Root(QDiv(revenues[n][2], revenues[1][2]), years),
                                   QOne)
                  IN  QMax(LOWER, QMin(UPPER, cagr))
             ELSE QZero

---------------------------------------------------------------------------
(* Python values whose type decides the outcome of an operation *)

PyFloatVal(q) == [ty |-> "float", v |-> q]
PyDict(r) == [ty |-> "dict", v |-> r]
PyList(l) == [ty |-> "list", v |-> l]
IntKey(i) == [ty |-> "int", v |-> i]
StrKey(k) == [ty |-> "str", v |-> k]

\* obj[key]: a dict raises KeyError for a key it does not hold (an int among
\* str keys), a list takes an int index (negative from the end), a float is
\* not subscriptable
PyGetItem(obj, key) ==
    IF obj.ty = "dict"
    THEN IF key.ty = "str" /\ key.v \in DOMAIN obj.v
         THEN Ok(obj.v[key.v]) ELSE Raise("KeyError")
    ELSE IF obj.ty = "list"
    THEN IF key.ty # "int" THEN Raise("TypeError")
         ELSE LET n == Len(obj.v)
                  i == IF key.v < 0 THEN n + key.v + 1 ELSE key.v + 1
              IN  IF i >= 1 /\ i <= n THEN Ok(obj.v[i]) ELSE Raise("IndexError")
    ELSE Raise("TypeError")

\* a * b for a float a: defined for a float b only
PyMul(a, b) ==
    IF b.ty = "float" THEN Ok(PyFloatVal(QMul(a, b.v))) ELSE Raise("TypeError")

---------------------------------------------------------------------------
(* valuation.py: calculate_base_fcf *)

TAX_RATE == Q(25, 100)

FcfZeros ==
    [base_fcf |-> QZero, ebit_margin |-> QZero, capex_ratio |-> QZero,
     fcf_margin |-> QZero, stability_score |-> QZero]

\* YearData without the `revenue > 0` gate
YearDataNoGate(fin) ==
    LET data == ValuesOf(fin)
        revenue == GetFloat(data, "Revenue")
        ebit == GetFloat(data, "Operating Income")
        depreciation == GetFloat(data, "Depreciation & Amortization")
        capex == GetFloat(data, "Capital Expenditure")
        nwc_change == GetFloat(data, "Change in Working Capital")
    IN  IF \E r \in {revenue, ebit, depreciation, capex, nwc_change} : ~Returned(r)
        THEN [tag |-> "raise"]
        ELSE [tag |-> "year",
              revenue |-> revenue.val,
              ebit |-> ebit.val,
              fcf |-> QSub(QSub(QAdd(QMul(ebit.val, QSub(QOne, TAX_RATE)),
                                     depreciation.val),
                                QAbs(capex.val)),
                           nwc_change.val),
              capex |-> QAbs(capex.val)]

\* one statement of the loop: "raise" when a field does not convert, else
\* the year's figures, or "skip" when Revenue is not positive
YearData(fin) ==
    LET data == ValuesOf(fin)
        revenue == GetFloat(data, "Revenue")
        ebit == GetFloat(data, "Operating Income")
        depreciation == GetFloat(data, "Depreciation & Amortization")
        capex == GetFloat(data, "Capital Expenditure")
        nwc_change == GetFloat(data, "Change in Working Capital")
    IN  IF \E r \in {revenue, ebit, depreciation, capex, nwc_change} : ~Returned(r)
        THEN [tag |-> "raise"]
        ELSE IF QLt(QZero, revenue.val)
        THEN [tag |-> "year",
              revenue |-> revenue.val,
              ebit |-> ebit.val,
              fcf |-> QSub(QSub(QAdd(QMul(ebit.val, QSub(QOne, TAX_RATE)),
                                     depreciation.val),
                                QAbs(capex.val)),
                           nwc_change.val),
              capex |-> QAbs(capex.val)]
        ELSE [tag |-> "skip"]

Field(seq, f) == [i \in 1..Len(seq) |-> seq[i][f]]
Mean(seq) == QDiv(QSum(seq), I(Len(seq)))

\* np.std: the population standard deviation
Std(seq) ==
    LET m == Mean(seq)
        sq == [i \in 1..Len(seq) |-> QMul(QSub(seq[i], m), QSub(seq[i], m))]
    IN  Root(Mean(sq), 2)

\* calculate_base_fcf reading the whole list
AllStatements(fins) == fins

\* financials[:3]
FirstThree(fins) == SubSeq(fins, 1, IF Len(fins) < 3 THEN Len(fins) ELSE 3)

RECURSIVE KeepYears(_)
KeepYears(ys) ==
    IF ys = <<>> THEN <<>>
    ELSE (IF Head(ys).tag = "year" THEN <<Head(ys)>> ELSE <<>>) \o KeepYears(Tail(ys))

calculate_base_fcf(fins) ==
    IF fins = <<>> THEN FcfZeros
    ELSE
    LET first3 == FirstThree(fins)
        all == [i \in 1..Len(first3) |-> YearData(first3[i])]
        years_data == KeepYears(all)
    IN  IF \E i \in 1..Len(all) : all[i].tag = "raise" THEN FcfZeros
        ELSE IF years_data = <<>> THEN FcfZeros
        ELSE
        LET avg_revenue == Mean(Field(years_data, "revenue"))
            avg_ebit == Mean(Field(years_data, "ebit"))
            avg_fcf == Mean(Field(years_data, "fcf"))
            avg_capex == Mean(Field(years_data, "capex"))
            pos == QLt(QZero, avg_revenue)
            fcf_values == Field(years_data, "fcf")
        IN  [base_fcf |-> QMax(QZero, avg_fcf),
             ebit_margin |-> IF pos THEN QDiv(avg_ebit, avg_revenue) ELSE QZero,
             capex_ratio |-> IF pos THEN QDiv(avg_capex, avg_revenue) ELSE QZero,
             fcf_margin |-> IF pos THEN QDiv(avg_fcf, avg_revenue) ELSE QZero,
             stability_score |->
                 IF Len(fcf_values) > 1 /\ QLt(QZero, avg_fcf)
                 THEN QSub(QOne, QMin(QOne, QDiv(Std(fcf_values), QAbs(avg_fcf))))
                 ELSE QZero]

---------------------------------------------------------------------------
(* valuation.py: project_cash_flows *)

Min2(a, b) == IF a < b THEN a ELSE b

\* year_growth without the decay
YearGrowthNoDecay(effective_growth, y) == Fix(effective_growth, 4)

\* growth decays by 2% a year
YearGrowth(effective_growth, y) ==
    Fix(QMul(effective_growth, QSub(QOne, QMul(Q(2, 100), I(y)))), 4)

\* margin expansion in the first three years
YearMargin(ebit_margin, margin_expansion, y) ==
    QAdd(ebit_margin, QMul(margin_expansion, I(Min2(y, 3))))

\* 20% more capex in the first two years
YearCapex(capex_ratio, y) ==
    IF y <= 2 THEN QMul(capex_ratio, Q(12, 10)) ELSE capex_ratio

\* base_fcf * (1 + year_growth) ** year, adjusted for margin and capex
FinalFcf(base_fcf, effective_growth, margin_expansion, capex_ratio, y) ==
    FMul(FMul(FMul(Fix(base_fcf, 2),
                   FPow(QAdd(QOne, YearGrowth(effective_growth, y)), y)),
              QAdd(QOne, QMul(margin_expansion, I(Min2(y, 3))))),
         QSub(QOne, Fix(QSub(YearCapex(capex_ratio, y), capex_ratio), 4)))

\* base_metrics is subscripted by name: a float raises TypeError
project_cash_flows(base_metrics, growth_rate, years) ==
    IF base_metrics.ty # "dict" THEN Raise("TypeError")
    ELSE
    LET base_fcf == base_metrics.v.base_fcf
        stability == base_metrics.v.stability_score
        ebit_margin == base_metrics.v.ebit_margin
        capex_ratio == base_metrics.v.capex_ratio
        effective_growth ==
            Fix(QMul(growth_rate, QAdd(Q(7, 10), QMul(Q(3, 10), Fix(stability, 4)))), 4)
        margin_expansion ==
            IF QLt(QZero, ebit_margin)
            THEN QMin(Q(2, 100), QMul(growth_rate, Q(15, 100))) ELSE QZero
        n == IF years < 0 THEN 0 ELSE years
    IN  Ok(PyDict(
          [projected_fcfs |->
               [y \in 1..n |->
                   QMax(QZero, FinalFcf(base_fcf, effective_growth, margin_expansion,
                                        capex_ratio, y))],
           margin_trends |-> [y \in 1..n |-> YearMargin(ebit_margin, margin_expansion, y)],
           capex_forecast |-> [y \in 1..n |-> YearCapex(capex_ratio, y)],
           growth_assumptions |->
               [initial_growth |-> effective_growth,
                terminal_growth |-> QMul(effective_growth, Q(5, 10)),
                margin_expansion |-> margin_expansion]]))

---------------------------------------------------------------------------
(* valuation.py: assess_data_completeness, calculate_dcf_confidence,       *)
(* generate_dcf_sensitivity_grid                                           *)

required_fields ==
    <<"operating_income", "revenue", "depreciation", "capital_expenditure",
      "change_in_working_capital">>

\* `field in f.data` looks at the top-level keys of the JSON column
InData(field, f) == HasKey(f.data.top, field) \/ (field = "values" /\ f.data.hasValues)

assess_data_completeness(fins) ==
    IF fins = <<>>
    THEN [score |-> QZero, years_available |-> 0,
          missing_fields |-> {required_fields[i] : i \in 1..5}]
    ELSE LET missing == {required_fields[i] : i \in
                            {j \in 1..5 : \A k \in 1..Len(fins) :
                                              ~InData(required_fields[j], fins[k])}}
             field_completeness == Q(5 - Cardinality(missing), 5)
         IN  [score |-> QMul(QMin(Q(Len(fins), 5), QOne), field_completeness),
              years_available |-> Len(fins),
              missing_fields |-> missing]

\* the statements up to `data_quality_score`: the first product multiplies
\* the float 0.4 by the dict assess_data_completeness returned
calculate_dcf_confidence(fins, growth_rate, wacc) ==
    LET data_quality == PyDict(assess_data_completeness(fins))
        years_of_data == Cardinality({fins[i].year : i \in 1..Len(fins)})
        historical_depth == QMin(QOne, Q(years_of_data, 5))
        first_term == PyMul(Q(4, 10), data_quality)
    IN  IF ~Returned(first_term) THEN first_term
        ELSE Ok([data_quality |-> first_term.val, historical_depth |-> historical_depth])

\* the first grid point: project_cash_flows, then fcfs[-1]
generate_dcf_sensitivity_grid(base_fcf, growth_rate, wacc, terminal_growth) ==
    LET g == QAdd(growth_rate, QMul(I(-2), Q(1, 100)))
        fcfs == project_cash_flows(base_fcf, g, 5)
    IN  IF ~Returned(fcfs) THEN fcfs
        ELSE LET last == PyGetItem(fcfs.val, IntKey(-1)) IN
             IF ~Returned(last) THEN last
             ELSE Ok([values |-> <<>>])

---------------------------------------------------------------------------
(* api/main.py: the dcf handler.  A request is [bodyOk, pairFound, fins,    *)
(* body]: whether the JSON body parses, whether the DealPair exists, the    *)
(* target's income statements (most recent first) and the parsed body.      *)

BodyGet(body, key, dflt) == IF key \in DOMAIN body THEN body[key] ELSE dflt

JsonError(status, raised, msg) ==
    [status |-> status, kind |-> "error", raised |-> raised, error |-> msg]

\* 1 / (1 + wacc) ** i
DiscountFactor(wacc, i) == QDiv(QOne, FPow(QAdd(QOne, wacc), i))

\* terminal value, discounting and enterprise value of a list of flows
DcfValue(fcfs, wacc, terminal_growth, years) ==
    IF wacc = terminal_growth THEN Raise("ZeroDivisionError")
    ELSE IF years < 1 THEN Raise("IndexError")
    ELSE LET last == PyGetItem(PyList(fcfs), IntKey(-1)) IN
         IF ~Returned(last) THEN last
         ELSE
         LET terminal_value ==
                 QDiv(QMul(last.val, QAdd(QOne, terminal_growth)),
                      QSub(wacc, terminal_growth))
             n == Min2(Len(fcfs), years)
             pv_fcfs == QSum([i \in 1..n |-> FMul(fcfs[i], DiscountFactor(wacc, i))])
         IN  Ok([terminal_value |-> terminal_value,
                 enterprise_value |-> QAdd(pv_fcfs, FMul(terminal_value, DiscountFactor(wacc, years)))])

dcf(req) ==
    IF ~req.bodyOk
    THEN \* request.json() raises before `session` is bound: the finally
         \* clause raises UnboundLocalError, which the middleware reports
         JsonError(500, "UnboundLocalError", "session")
    ELSE IF ~req.pairFound
    THEN [status |-> 404, kind |-> "not_found", error |-> "Pair not found"]
    ELSE
    LET growth_rate == BodyGet(req.body, "growth_rate", Q(3, 100))
        wacc == BodyGet(req.body, "wacc", Q(10, 100))
        projection_years == BodyGet(req.body, "projection_years", 5)
        terminal_growth == BodyGet(req.body, "terminal_growth", Q(2, 100))
        base_fcf == PyDict(calculate_base_fcf(req.fins))
        projected_fcfs == project_cash_flows(base_fcf, growth_rate, projection_years)
        last == PyGetItem(projected_fcfs.val, IntKey(-1))
    IN  IF ~Returned(projected_fcfs) THEN JsonError(500, projected_fcfs.exc, "")
        ELSE IF ~Returned(last) THEN JsonError(500, last.exc, "-1")
        ELSE
        LET value == DcfValue(projected_fcfs.val.v, wacc, terminal_growth,
                              projection_years)
            confidence == calculate_dcf_confidence(req.fins, growth_rate, wacc)
            sensitivity ==
                generate_dcf_sensitivity_grid(base_fcf, growth_rate, wacc,
                                              terminal_growth)
        IN  IF ~Returned(value) THEN JsonError(500, value.exc, "")
            ELSE IF ~Returned(confidence) THEN JsonError(500, confidence.exc, "")
            ELSE IF ~Returned(sensitivity) THEN JsonError(500, sensitivity.exc, "")
            ELSE [status |-> 200, kind |-> "ok",
                  enterprise_value |-> value.val.enterprise_value,
                  terminal_value |-> value.val.terminal_value,
                  confidence |-> confidence.val,
                  sensitivity |-> sensitivity.val]

---------------------------------------------------------------------------
(* api/main.py: the comps handler.  A request is [pairFound, target,       *)
(* others]: the target company and the other companies of the store, in    *)
(* query order.  A company is [sector, cap, md, fin]: md is what            *)
(* fetch_market_data returns for it ([ok |-> FALSE] for the empty dict),    *)
(* fin its most recent income statement ([has |-> FALSE] for none).         *)

NoneEV == -1

NoFin == [has |-> FALSE]
Fin(tops) == [has |-> TRUE, top |-> tops]
NoMarketData == [ok |-> FALSE]
MarketData(ev) == [ok |-> TRUE, enterprise_value |-> ev]

\* sector equality and market_cap BETWEEN 0.3x and 3.0x of the target's
IsComparable(c, target) ==
    /\ c.sector = target.sector
    /\ c.cap # NoneCap
    /\ 10 * c.cap >= 3 * target.cap
    /\ c.cap <= 3 * target.cap

RECURSIVE Comparables(_, _)
Comparables(others, target) ==
    IF others = <<>> THEN <<>>
    ELSE (IF IsComparable(Head(others), target) THEN <<Head(others)>> ELSE <<>>)
         \o Comparables(Tail(others), target)

\* float(financials.data.get(key, 0)) > 0 for both keys, then ev / value:
\* "skip" stands for `continue`, also from except (ValueError, TypeError)
Multiple(comp) ==
    IF ~comp.md.ok THEN [tag |-> "skip"]
    ELSE IF ~comp.fin.has \/ comp.fin.top = <<>> THEN [tag |-> "skip"]
    ELSE LET revenue == GetFloat(comp.fin.top, "revenue")
             ebitda == GetFloat(comp.fin.top, "ebitda")
         IN  IF ~Returned(revenue) THEN [tag |-> "skip"]
             ELSE IF ~Returned(ebitda) THEN [tag |-> "skip"]
             ELSE IF QLt(QZero, revenue.val) /\ QLt(QZero, ebitda.val)
             THEN IF comp.md.enterprise_value = NoneEV
                  THEN [tag |-> "skip"]      \* None / float: TypeError
                  ELSE [tag |-> "multiple",
                        ev_revenue |-> QDiv(I(comp.md.enterprise_value), revenue.val),
                        ev_ebitda |-> QDiv(I(comp.md.enterprise_value), ebitda.val)]
             ELSE [tag |-> "skip"]

RECURSIVE Multiples(_)
Multiples(cs) ==
    IF cs = <<>> THEN <<>>
    ELSE LET m == Multiple(Head(cs)) IN
         (IF m.tag = "multiple" THEN <<m>> ELSE <<>>) \o Multiples(Tail(cs))

RECURSIVE QInsert(_, _)
QInsert(sorted, x) ==
    IF sorted = <<>> THEN <<x>>
    ELSE IF QLt(x, Head(sorted)) THEN <<x>> \o sorted
    ELSE <<Head(sorted)>> \o QInsert(Tail(sorted), x)

RECURSIVE QSort(_)
QSort(s) == IF s = <<>> THEN <<>> ELSE QInsert(QSort(Tail(s)), Head(s))

\* np.median of a non-empty list
Median(s) ==
    LET t == QSort(s)
        n == Len(t)
    IN  IF n % 2 = 1 THEN t[(n + 1) \div 2]
        ELSE QDiv(QAdd(t[n \div 2], t[n \div 2 + 1]), I(2))

Limit(s, n) == SubSeq(s, 1, Min2(Len(s), n))

\* .limit(10) of the comparables query
QueryLimit == 10

comps(req) ==
    IF ~req.pairFound
    THEN [status |-> 404, kind |-> "not_found", error |-> "Pair not found"]
    ELSE IF req.target.cap = NoneCap
    THEN JsonError(500, "TypeError", "")     \* None * 0.3
    ELSE
    LET comparable_companies == Limit(Comparables(req.others, req.target), QueryLimit)
        multiples == Multiples(comparable_companies)
    IN  IF comparable_companies = <<>>
        THEN [status |-> 404, kind |-> "no_comparables",
              error |-> "No comparable companies found"]
        ELSE IF multiples = <<>>
        THEN [status |-> 404, kind |-> "no_comparables",
              error |-> "Could not calculate multiples"]
        ELSE
        LET ev_revenue_median == Median(Field(multiples, "ev_revenue"))
            ev_ebitda_median == Median(Field(multiples, "ev_ebitda"))
            tf == req.target.fin
        IN  IF ~tf.has \/ tf.top = <<>>
            THEN [status |-> 404, kind |-> "not_found",
                  error |-> "Target financials not found"]
            ELSE
            LET target_revenue == GetFloat(tf.top, "revenue")
                target_ebitda == GetFloat(tf.top, "ebitda")
            IN  IF ~Returned(target_revenue) \/ ~Returned(target_ebitda)
                THEN JsonError(500, "ValueError", "")
                ELSE [status |-> 200, kind |-> "ok",
                      enterprise_value |->
                          QAdd(QMul(QMul(target_revenue.val, ev_revenue_median),
                                    Q(4, 10)),
                               QMul(QMul(target_ebitda.val, ev_ebitda_median),
                                    Q(6, 10))),
                      confidence |-> QMin(QOne, Q(Len(multiples), 5)),
                      comps_used |-> Len(multiples)]

---------------------------------------------------------------------------
(* pairing.py: score_pair and generate_top_pairs.  The store holds the     *)
(* companies of `financials`' domain; financials[c] is what the income     *)
(* statement query returns for c (most recent first).  cache is the        *)
(* process-wide lru_cache of _get_cached_financials.                       *)

Companies == {"ACQ", "T1", "T2"}

\* Company.market_cap of each company of the universe
MarketCap(c) == IF c = "ACQ" THEN 100 ELSE IF c = "T1" THEN 30 ELSE NoneCap

\* `company.market_cap or 0.0`
CapOrZero(c) == IF MarketCap(c) = NoneCap THEN 0 ELSE MarketCap(c)

NotCached == [hit |-> FALSE]

\* _get_cached_financials: the cached list if there is one, else the query
\* result, which is then kept for the life of the process
_get_cached_financials(c, cch, fin) ==
    IF cch[c].hit THEN cch[c].fins
    ELSE IF c \in DOMAIN fin THEN fin[c] ELSE <<>>

CacheFill(c, cch, fin) ==
    [cch EXCEPT ![c] = [hit |-> TRUE, fins |-> _get_cached_financials(c, cch, fin)]]

\* Company.sector of each company of the universe
Sector(c) ==
    IF c = "ACQ" THEN PyStr("technology", FALSE, TRUE)
    ELSE IF c = "T1" THEN PyStr("communications", FALSE, FALSE)
    ELSE PyNone

\* the weighted total and the sub-score dict score_pair returns
Total(size, sector, cagr, revenue_growth, acq_cap, tgt_cap) ==
    LET growth_synergy ==
            QMax(QZero, QMin(QOne, QAdd(QMul(Q(7, 10), cagr),
                                        QMul(Q(3, 10), revenue_growth))))
        relative_size == IF acq_cap > 0 THEN Q(tgt_cap, acq_cap) ELSE QZero
        market_position ==
            QMax(QZero, QMin(QOne, QSub(QOne, QAbs(QSub(Q(3, 10), relative_size)))))
        total == QAdd(QAdd(QMul(Q(40, 100), size), QMul(Q(25, 100), sector)),
                      QAdd(QMul(Q(20, 100), growth_synergy),
                           QMul(Q(15, 100), market_position)))
    IN  [score |-> QMul(total, I(100)),
         subs |-> [size |-> size, sector |-> sector,
                   growth_synergy |-> growth_synergy,
                   market_position |-> market_position,
                   target_cagr |-> cagr,
                   target_recent_growth |-> revenue_growth]]

\* score_pair with the target's growth read under the key that is set
ScoreFromRevenueCagr(size, sector, acq_cap, tgt_cap, acq_growth_metrics, tgt_growth_metrics, cache2) ==
    IF ~Returned(acq_growth_metrics)
    THEN [ret |-> acq_growth_metrics, cache |-> cache2]
    ELSE IF ~Returned(tgt_growth_metrics)
    THEN [ret |-> tgt_growth_metrics, cache |-> cache2]
    ELSE [ret |-> Ok(Total(size, sector, tgt_growth_metrics.val.revenue_cagr,
                           tgt_growth_metrics.val.revenue_growth, acq_cap, tgt_cap)),
          cache |-> cache2]

\* score_pair from the growth synergy on: the target's metric dict is
\* subscripted with "cagr", a key _calculate_growth_metrics never sets, so
\* no metric dict it returns reaches the last branch.
ScoreFrom(size, sector, acq_cap, tgt_cap, acq_growth_metrics, tgt_growth_metrics, cache2) ==
    IF ~Returned(acq_growth_metrics)
    THEN [ret |-> acq_growth_metrics, cache |-> cache2]
    ELSE IF ~Returned(tgt_growth_metrics)
    THEN [ret |-> tgt_growth_metrics, cache |-> cache2]
    ELSE
    LET cagr == PyGetItem(PyDict(tgt_growth_metrics.val), StrKey("cagr")) IN
    IF ~Returned(cagr) THEN [ret |-> cagr, cache |-> cache2]
    ELSE [ret |-> Ok(Total(size, sector, cagr.val,
                           tgt_growth_metrics.val.revenue_growth, acq_cap, tgt_cap)),
          cache |-> cache2]

\* score_pair: the size and sector scores, then both statement lists
\* fetched through the cache and both metric dicts computed.  The result is
\* [ret, cache].
score_pair(acquirer, target, cch, fin) ==
    CHOOSE r \in
        {ScoreFrom(size, sector, CapOrZero(acquirer), CapOrZero(target),
                   acq, tgt, cache2) :
            size \in {_size_score(CapOrZero(acquirer), CapOrZero(target))},
            sector \in {_sector_score(OrEmpty(Sector(acquirer)), OrEmpty(Sector(target)),
                                      PyNone, PyNone)},
            acq \in {_calculate_growth_metrics(_get_cached_financials(acquirer, cch, fin))},
            tgt \in {_calculate_growth_metrics(
                        _get_cached_financials(target, CacheFill(acquirer, cch, fin), fin))},
            cache2 \in {CacheFill(target, CacheFill(acquirer, cch, fin), fin)}} : TRUE

\* the entry the model logs for a score_pair call: the pair, the stored
\* statements of both companies at the time of the call, the statement
\* lists the growth metrics were computed from, and the outcome
CallEntry(acquirer, target, cch, fin, ret) ==
    [acquirer |-> acquirer, target |-> target,
     acq_stored |-> IF acquirer \in DOMAIN fin THEN fin[acquirer] ELSE <<>>,
     tgt_stored |-> IF target \in DOMAIN fin THEN fin[target] ELSE <<>>,
     acq_used |-> _get_cached_financials(acquirer, cch, fin),
     tgt_used |-> _get_cached_financials(target, CacheFill(acquirer, cch, fin), fin),
     ret |-> ret]

RECURSIVE ScoreLoop(_, _, _, _, _, _)
\* `for tgt in candidates: scored.append((tgt, *score_pair(...)))`: the
\* first exception leaves the loop and the function
ScoreLoop(acquirer, candidates, cch, fin, scored, attempts) ==
    IF candidates = <<>>
    THEN [ret |-> Ok(scored), cache |-> cch, attempts |-> attempts]
    ELSE CHOOSE res \in
        {IF ~Returned(r.ret)
         THEN [ret |-> r.ret, cache |-> r.cache, attempts |-> log]
         ELSE ScoreLoop(acquirer, Tail(candidates), r.cache, fin,
                        Append(scored, [target |-> Head(candidates),
                                        score |-> r.ret.val.score,
                                        subs |-> r.ret.val.subs]),
                        log) :
            r \in {score_pair(acquirer, Head(candidates), cch, fin)},
            log \in {Append(attempts,
                            CallEntry(acquirer, Head(candidates), cch, fin,
                                      score_pair(acquirer, Head(candidates), cch, fin).ret))}} :
        TRUE

RECURSIVE InsertByScore(_, _)
\* x goes behind every item whose score is not lower: the sort is stable
InsertByScore(sorted, x) ==
    IF sorted = <<>> THEN <<x>>
    ELSE IF QLt(Head(sorted).score, x.score) THEN <<x>> \o sorted
    ELSE <<Head(sorted)>> \o InsertByScore(Tail(sorted), x)

RECURSIVE SortByScore(_)
\* scored.sort(key=score, reverse=True)
SortByScore(scored) ==
    IF scored = <<>> THEN <<>>
    ELSE InsertByScore(SortByScore(SubSeq(scored, 1, Len(scored) - 1)),
                       scored[Len(scored)])

\* seq[:top]
PySlice(seq, top) ==
    IF top >= 0 THEN SubSeq(seq, 1, Min2(top, Len(seq)))
    ELSE SubSeq(seq, 1, IF Len(seq) + top < 0 THEN 0 ELSE Len(seq) + top)

\* the DealPair rows after the upsert of every item of top_items
Upsert(pairs, acquirer, top_items) ==
    {p \in pairs : ~(p.acquirer = acquirer
                     /\ \E i \in 1..Len(top_items) : top_items[i].target = p.target)}
    \cup {[acquirer |-> acquirer, target |-> top_items[i].target,
           score |-> top_items[i].score, subs |-> top_items[i].subs] :
             i \in 1..Len(top_items)}

\* the orders in which the unordered candidates query may return a set
Orders(S) ==
    {o \in [1..Cardinality(S) -> S] : \A i, j \in 1..Cardinality(S) : o[i] = o[j] => i = j}

---------------------------------------------------------------------------
(* Stateless calls: the arguments are drawn in Init, one action per        *)
(* function or handler applies it.                                         *)

MaxCap == 100
MaxStmts == 3
MaxPeers == 2

Years == {2021, 2022, 2023}

SizeInputs ==
    {[kind |-> "size", acq |-> a, tgt |-> t] :
        a \in (0..MaxCap) \cup {NoneCap, -5}, t \in (0..MaxCap) \cup {NoneCap, -5}}

\* sector columns: NULL, empty, plain, padded and capitalised names
Sectors ==
    {PyNone, PyStr("", FALSE, FALSE), PyStr("technology", FALSE, FALSE),
     PyStr("technology", TRUE, TRUE), PyStr("communications", FALSE, FALSE),
     PyStr("healthcare", FALSE, TRUE), PyStr("energy", FALSE, FALSE)}

\* industry arguments: not given, or a name
Industries ==
    {PyNone, PyStr("software", FALSE, FALSE), PyStr("software", TRUE, TRUE),
     PyStr("hardware", FALSE, FALSE), PyStr("biotech", FALSE, FALSE)}

SectorInputs ==
    {[kind |-> "sector", acq_sector |-> a, tgt_sector |-> t,
      acq_industry |-> ai, tgt_industry |-> ti] :
        a \in Sectors, t \in Sectors, ai \in Industries, ti \in Industries}

\* the "values" sub-dicts the growth inputs are built from
GrowthValues ==
    { <<Num("Revenue", 8)>>, <<Num("Revenue", 2)>>, <<Num("Revenue", 9)>>,
      <<Num("Revenue", 0)>>, <<Num("Revenue", -8)>>, <<Bad("Revenue")>>,
      <<Num("Revenue", 2), Num("EBITDA", 1), Num("Net Income", 1)>>,
      <<Num("Total Revenue", 8), Num("Cost Of Revenue", 2), Num("EBITDA", 4)>> }

\* the JSON documents of the growth inputs
GrowthData ==
    {Stmt(0, v).data : v \in GrowthValues}
    \cup {FlatStmt(0, <<Num("revenue", 8)>>).data}

\* the year columns of a query result of n rows: most recent first (two
\* rows may share a year: quarterly rows, several income statement types)
NonIncreasing(n) ==
    {y \in [1..n -> Years] : \A i \in 1..(n - 1) : y[i] >= y[i + 1]}

Listing(ys, d) == [i \in DOMAIN d |-> [year |-> ys[i], data |-> d[i]]]

GrowthInit ==
    \E n \in 0..MaxStmts :
        \E ys \in NonIncreasing(n), d \in [1..n -> GrowthData] :
            inp = [kind |-> "growth", fins |-> Listing(ys, d)]

\* the "values" sub-dicts the valuation inputs are built from
FcfValues ==
    { <<Num("Revenue", 100), Num("Operating Income", 40)>>,
      <<Num("Revenue", 100), Num("Operating Income", 40),
        Num("Depreciation & Amortization", 10), Num("Capital Expenditure", -20),
        Num("Change in Working Capital", 4), Num("Net Income", 20)>>,
      <<Num("Revenue", 200), Num("Operating Income", 80)>>,
      <<Num("Revenue", 100), Num("Operating Income", -40)>>,
      <<Num("Revenue", 0), Num("Operating Income", 40)>>,
      <<Num("Operating Income", 40), Num("Depreciation & Amortization", 10)>>,
      <<Num("Revenue", 100), Bad("Operating Income")>> }

\* the JSON documents of the valuation inputs: as ingestion stores them
\* (under "values") and flat, as the integration tests build them
FcfData ==
    {Stmt(0, v).data : v \in FcfValues}
    \cup {FlatStmt(0, <<Num("revenue", 100), Num("operating_income", 10),
                        Num("depreciation", 1)>>).data}

\* annual statements of consecutive years, most recent first
Annual(d) == [i \in DOMAIN d |-> [year |-> 2024 - i, data |-> d[i]]]

Rates ==
    { [growth_rate |-> Q(5, 100), wacc |-> Q(10, 100), terminal_growth |-> Q(2, 100)],
      [growth_rate |-> Q(30, 100), wacc |-> QZero, terminal_growth |-> Q(2, 100)] }

ValInit ==
    \E n \in 0..MaxStmts :
        \E d \in [1..n -> FcfData], r \in Rates :
            inp = [kind |-> "val", fins |-> Annual(d), rates |-> r]

\* histories longer than the three statements calculate_base_fcf reads
LongData ==
    { Stmt(0, <<Num("Revenue", 100), Num("Operating Income", 40)>>).data,
      Stmt(0, <<Num("Revenue", 200), Num("Operating Income", 80)>>).data,
      Stmt(0, <<Num("Revenue", 0), Num("Operating Income", 40)>>).data }

LongInit ==
    \E d \in [1..(MaxStmts + 1) -> LongData], r \in Rates :
        inp = [kind |-> "val", fins |-> Annual(d), rates |-> r]

DcfData ==
    { Stmt(0, <<Num("Revenue", 200), Num("Operating Income", 80)>>).data,
      Stmt(0, <<Num("Revenue", 100), Num("Operating Income", 40)>>).data,
      FlatStmt(0, <<Num("revenue", 100), Num("operating_income", 10)>>).data }

Bodies ==
    { <<>>,
      [wacc |-> Q(2, 100)],
      [wacc |-> Q(1, 100)],
      [growth_rate |-> Q(5, 100)],
      [growth_rate |-> Q(5, 100), wacc |-> Q(12, 100),
       terminal_growth |-> Q(3, 100), projection_years |-> 2] }

DcfInit ==
    \E n \in 0..MaxStmts :
        \E d \in [1..n -> DcfData], body \in Bodies,
           b \in {<<TRUE, TRUE>>, <<TRUE, FALSE>>, <<FALSE, TRUE>>} :
            inp = [kind |-> "dcf",
                   req |-> [bodyOk |-> b[1], pairFound |-> b[2],
                            fins |-> Annual(d), body |-> body]]

GoodFin == Fin(<<Num("revenue", 10), Num("ebitda", 5)>>)

PeerOptions ==
    { [sector |-> "Technology", cap |-> 100, md |-> MarketData(50), fin |-> GoodFin],
      [sector |-> "Technology", cap |-> 200, md |-> MarketData(80),
       fin |-> Fin(<<Num("revenue", 20), Num("ebitda", 4)>>)],
      [sector |-> "Technology", cap |-> 100, md |-> NoMarketData, fin |-> GoodFin],
      [sector |-> "Technology", cap |-> 100, md |-> MarketData(50), fin |-> NoFin],
      [sector |-> "Technology", cap |-> 100, md |-> MarketData(50), fin |-> Fin(<<>>)],
      [sector |-> "Technology", cap |-> 100, md |-> MarketData(50),
       fin |-> Fin(<<Num("revenue", 10), Num("ebitda", 0)>>)],
      [sector |-> "Technology", cap |-> 100, md |-> MarketData(50),
       fin |-> Fin(<<Bad("revenue"), Num("ebitda", 5)>>)],
      [sector |-> "Technology", cap |-> 100, md |-> MarketData(NoneEV), fin |-> GoodFin],
      [sector |-> "Healthcare", cap |-> 100, md |-> MarketData(50), fin |-> GoodFin],
      [sector |-> "Technology", cap |-> 1000, md |-> MarketData(50), fin |-> GoodFin],
      [sector |-> "Technology", cap |-> NoneCap, md |-> MarketData(50), fin |-> GoodFin] }

Targets ==
    {[sector |-> "Technology", cap |-> c, md |-> NoMarketData, fin |-> f] :
        c \in {100, NoneCap},
        f \in {NoFin, GoodFin, Fin(<<Bad("revenue")>>), Fin(<<>>)}}

CompsInit ==
    \E n \in 0..MaxPeers :
        \E o \in [1..n -> PeerOptions], t \in Targets, p \in BOOLEAN :
            inp = [kind |-> "comps",
                   req |-> [pairFound |-> p, target |-> t, others |-> o]]

\* sectors with many comparable companies: more peers than full confidence
\* needs, and more than the comparables query returns
CrowdOptions ==
    { [sector |-> "Technology", cap |-> 100, md |-> MarketData(50), fin |-> GoodFin],
      [sector |-> "Technology", cap |-> 200, md |-> MarketData(80),
       fin |-> Fin(<<Num("revenue", 20), Num("ebitda", 4)>>)] }

CrowdInit ==
    \E n \in {MaxPeers + 3, QueryLimit + 1} :
        \E o \in [1..n -> CrowdOptions] :
            inp = [kind |-> "comps",
                   req |-> [pairFound |-> TRUE,
                            target |-> [sector |-> "Technology", cap |-> 100,
                                        md |-> NoMarketData, fin |-> GoodFin],
                            others |-> o]]

NoOut == [fn |-> "none"]

ClientIps == {"10.0.0.1", "10.0.0.2"}

\* reply is [status, ip, n]: n counts the requests dispatched so far
NoResp == [status |-> 0, ip |-> "", n |-> 0]

\* the rate limiter before its first request: defaultdict(list)
RateIdle ==
    /\ requests = [ip \in ClientIps |-> <<>>]
    /\ now = 0
    /\ admitted = [ip \in ClientIps |-> <<>>]
    /\ reply = NoResp

\* the stateless calls leave the store, the cache and the ranking alone
StoreIdle ==
    /\ financials = <<>>
    /\ cache = <<>>
    /\ dealPairs = {}
    /\ run = [pc |-> "idle"]
    /\ calls = <<>>
    /\ nruns = 0

CallInit ==
    /\ StoreIdle
    /\ RateIdle
    /\ \/ inp \in SizeInputs
       \/ inp \in SectorInputs
       \/ GrowthInit
       \/ ValInit
       \/ LongInit
       \/ DcfInit
       \/ CompsInit
       \/ CrowdInit
    /\ out = NoOut

CallSizeScore ==
    /\ inp.kind = "size"
    /\ out = NoOut
    /\ out' = [fn |-> "_size_score", ret |-> Ok(_size_score(inp.acq, inp.tgt))]
    /\ UNCHANGED inp

CallSectorScore ==
    /\ inp.kind = "sector"
    /\ out = NoOut
    /\ out' = [fn |-> "_sector_score",
               ret |-> Ok(_sector_score(inp.acq_sector, inp.tgt_sector,
                                        inp.acq_industry, inp.tgt_industry))]
    /\ UNCHANGED inp

CallGrowthMetrics ==
    /\ inp.kind = "growth"
    /\ out = NoOut
    /\ out' = [fn |-> "_calculate_growth_metrics",
               ret |-> _calculate_growth_metrics(inp.fins)]
    /\ UNCHANGED inp

CallHistoricalGrowth ==
    /\ inp.kind = "growth"
    /\ out = NoOut
    /\ out' = [fn |-> "_calculate_historical_growth",
               ret |-> Ok(_calculate_historical_growth(inp.fins))]
    /\ UNCHANGED inp

CallBaseFcf ==
    /\ inp.kind = "val"
    /\ out = NoOut
    /\ out' = [fn |-> "calculate_base_fcf", ret |-> Ok(calculate_base_fcf(inp.fins))]
    /\ UNCHANGED inp

\* the `years` arguments: none, one, the default of five and one between
Horizons == {0, 1, 3, 5}

CallProjectCashFlows ==
    /\ inp.kind = "val"
    /\ out = NoOut
    /\ \E years \in Horizons :
          out' = [fn |-> "project_cash_flows", years |-> years,
                  ret |-> project_cash_flows(PyDict(calculate_base_fcf(inp.fins)),
                                             inp.rates.growth_rate, years)]
    /\ UNCHANGED inp

CallDcfConfidence ==
    /\ inp.kind = "val"
    /\ out = NoOut
    /\ out' = [fn |-> "calculate_dcf_confidence",
               ret |-> calculate_dcf_confidence(inp.fins, inp.rates.growth_rate,
                                                inp.rates.wacc)]
    /\ UNCHANGED inp

\* the base_fcf argument: the dict calculate_base_fcf returned, as the dcf
\* handler passes it, or its base_fcf number, as the signature asks
GridArg(style, fins) ==
    IF style = "dict" THEN PyDict(calculate_base_fcf(fins))
    ELSE PyFloatVal(calculate_base_fcf(fins).base_fcf)

CallSensitivityGrid ==
    /\ inp.kind = "val"
    /\ out = NoOut
    /\ \E style \in {"dict", "float"} :
         out' = [fn |-> "generate_dcf_sensitivity_grid", style |-> style,
                 ret |-> generate_dcf_sensitivity_grid(
                             GridArg(style, inp.fins), inp.rates.growth_rate,
                             inp.rates.wacc, inp.rates.terminal_growth)]
    /\ UNCHANGED inp

CallDcf ==
    /\ inp.kind = "dcf"
    /\ out = NoOut
    /\ out' = [fn |-> "dcf", ret |-> dcf(inp.req)]
    /\ UNCHANGED inp

CallComps ==
    /\ inp.kind = "comps"
    /\ out = NoOut
    /\ out' = [fn |-> "comps", ret |-> comps(inp.req)]
    /\ UNCHANGED inp

CallNext ==
    \/ CallSizeScore /\ UNCHANGED <<storeVars, rateVars>>
    \/ CallSectorScore /\ UNCHANGED <<storeVars, rateVars>>
    \/ CallGrowthMetrics /\ UNCHANGED <<storeVars, rateVars>>
    \/ CallHistoricalGrowth /\ UNCHANGED <<storeVars, rateVars>>
    \/ CallBaseFcf /\ UNCHANGED <<storeVars, rateVars>>
    \/ CallProjectCashFlows /\ UNCHANGED <<storeVars, rateVars>>
    \/ CallDcfConfidence /\ UNCHANGED <<storeVars, rateVars>>
    \/ CallSensitivityGrid /\ UNCHANGED <<storeVars, rateVars>>
    \/ CallDcf /\ UNCHANGED <<storeVars, rateVars>>
    \/ CallComps /\ UNCHANGED <<storeVars, rateVars>>

SpecCalls == CallInit /\ [][CallNext]_vars

---------------------------------------------------------------------------
(* Ranking: generate_top_pairs and direct score_pair calls of one process, *)
(* with ingestion rewriting stored statements in between.                  *)

MaxRuns == 2

\* the `top` arguments: none, fewer than the candidates, the default of 20
Tops == {0, 1, 20}

\* the income statements a company has after its first ingestion
GoodHistory ==
    <<Stmt(2023, <<Num("Revenue", 8)>>), Stmt(2022, <<Num("Revenue", 2)>>)>>

\* the statement lists ingestion may leave for a company
FinOptions ==
    { GoodHistory,
      <<Stmt(2023, <<Num("Revenue", -8)>>), Stmt(2021, <<Num("Revenue", 2)>>)>> }

\* the company ingestion refreshes while the process runs
Refreshed == {"T1"}

\* the companies the store may hold: the acquirer alone, or with targets
Stores == {{"ACQ"}, {"ACQ", "T1"}, Companies}

Idle == [pc |-> "idle"]

RankInit ==
    /\ \E S \in Stores : financials = [c \in S |-> GoodHistory]
    /\ cache = [c \in Companies |-> NotCached]
    /\ dealPairs = {}
    /\ run = Idle
    /\ calls = <<>>
    /\ nruns = 0
    /\ inp = [kind |-> "none"]
    /\ out = NoOut
    /\ RateIdle

\* the candidates query with its filter left out
AllCompanies(fin, acquirer) == DOMAIN fin

\* session.query(Company).filter(Company.id != acquirer.id).all()
Candidates(fin, acquirer) == DOMAIN fin \ {acquirer}

\* session.close() as the last statement of the try body
ClosedOnReturn(ret) == IF Returned(ret) THEN "closed" ELSE "open"

\* finally: session.close(), passed on a return and on an exception alike
SessionAfter(ret) == "closed"

\* generate_top_pairs after the loop: its outcome, the cache, the DealPair
\* rows and the calls made
AfterLoop(acquirer, top, loop) ==
    IF ~Returned(loop.ret)
    THEN [ret |-> loop.ret, cache |-> loop.cache, attempts |-> loop.attempts,
          pairs |-> dealPairs]
    ELSE LET top_items == PySlice(SortByScore(loop.ret.val), top) IN
         [ret |-> Ok([i \in 1..Len(top_items) |->
                         [acquirer |-> acquirer, target |-> top_items[i].target,
                          score |-> top_items[i].score, subscores |-> top_items[i].subs,
                          target_market_cap |-> MarketCap(top_items[i].target)]]),
          cache |-> loop.cache, attempts |-> loop.attempts,
          pairs |-> Upsert(dealPairs, acquirer, top_items)]

\* what generate_top_pairs leaves behind when the candidates come back in
\* `order`
TopPairs(acquirer, top, order) ==
    CHOOSE r \in {AfterLoop(acquirer, top, loop) :
                    loop \in {ScoreLoop(acquirer, order, cache, financials, <<>>, <<>>)}} :
        TRUE

generate_top_pairs(acquirer_ticker, top) ==
    /\ nruns < MaxRuns
    /\ nruns' = nruns + 1
    /\ IF acquirer_ticker \notin DOMAIN financials
       THEN /\ run' = [pc |-> "done", acquirer |-> acquirer_ticker, top |-> top,
                       found |-> FALSE, candidates |-> <<>>, attempts |-> <<>>,
                       ret |-> Raise("ValueError"),
                       session |-> SessionAfter(Raise("ValueError"))]
            /\ UNCHANGED <<cache, dealPairs, calls>>
       ELSE \E order \in Orders(Candidates(financials, acquirer_ticker)) :
            \E r \in {TopPairs(acquirer_ticker, top, order)} :
                /\ run' = [pc |-> "done", acquirer |-> acquirer_ticker, top |-> top,
                           found |-> TRUE, candidates |-> order,
                           attempts |-> r.attempts, ret |-> r.ret,
                           session |-> SessionAfter(r.ret)]
                /\ cache' = r.cache
                /\ dealPairs' = r.pairs
                /\ calls' = calls \o r.attempts
    /\ UNCHANGED <<financials, inp, out>>

\* score_pair called on its own for two stored companies
ScorePair(acquirer, target) ==
    /\ nruns < MaxRuns
    /\ nruns' = nruns + 1
    /\ acquirer \in DOMAIN financials /\ target \in DOMAIN financials
    /\ acquirer # target
    /\ \E r \in {score_pair(acquirer, target, cache, financials)} :
          /\ cache' = r.cache
          /\ calls' = Append(calls, CallEntry(acquirer, target, cache, financials, r.ret))
    /\ UNCHANGED <<financials, dealPairs, run, inp, out>>

\* ingestion replaces the stored income statements of a company
StoreWrite(c, stmts) ==
    /\ c \in DOMAIN financials
    /\ stmts # financials[c]
    /\ financials' = [financials EXCEPT ![c] = stmts]
    /\ UNCHANGED <<cache, dealPairs, run, calls, nruns, inp, out>>

Next ==
    \/ \E t \in Companies \cup {"ZZZ"}, top \in Tops :
          generate_top_pairs(t, top) /\ UNCHANGED rateVars
    \/ \E a \in Companies, t \in Companies : ScorePair(a, t) /\ UNCHANGED rateVars
    \/ \E c \in Refreshed, l \in FinOptions : StoreWrite(c, l) /\ UNCHANGED rateVars

Spec == RankInit /\ [][Next]_vars

---------------------------------------------------------------------------
(* api/main.py: RateLimitMiddleware.  dispatch runs without an await from  *)
(* the reading of the clock to the append, so one request is one step.     *)
(* The clock readings do not decrease.                                     *)

max_requests == 2
window_seconds == 3
MaxTime == 5
MaxDispatch == 5

\* the timestamps of a list, none dropped
KeepAll(stamps, t) == stamps

\* [ts for ts in stamps if t - ts < timedelta(seconds=window_seconds)]
RECURSIVE Recent(_, _)
Recent(stamps, t) ==
    IF stamps = <<>> THEN <<>>
    ELSE (IF t - Head(stamps) < window_seconds THEN <<Head(stamps)>> ELSE <<>>)
         \o Recent(Tail(stamps), t)

\* dispatch: old timestamps dropped, then 429 for a full list, else the
\* timestamp appended and the request passed on
dispatch(client_ip) ==
    /\ reply.n < MaxDispatch
    /\ \E kept \in {Recent(requests[client_ip], now)} :
          IF Len(kept) >= max_requests
          THEN /\ requests' = [requests EXCEPT ![client_ip] = kept]
               /\ reply' = [status |-> 429, ip |-> client_ip, n |-> reply.n + 1]
               /\ UNCHANGED admitted
          ELSE /\ requests' = [requests EXCEPT ![client_ip] = Append(kept, now)]
               /\ reply' = [status |-> 200, ip |-> client_ip, n |-> reply.n + 1]
               /\ admitted' = [admitted EXCEPT ![client_ip] = Append(@, now)]
    /\ UNCHANGED <<now, inp, out, storeVars>>

\* a second passes
Tick ==
    /\ now < MaxTime
    /\ now' = now + 1
    /\ UNCHANGED <<requests, admitted, reply, inp, out, storeVars>>

RateInit ==
    /\ RateIdle
    /\ StoreIdle
    /\ inp = [kind |-> "none"]
    /\ out = NoOut

RateNext ==
    \/ \E ip \in ClientIps : dispatch(ip)
    \/ Tick

SpecRate == RateInit /\ [][RateNext]_vars

---------------------------------------------------------------------------
(* Claims *)

\* the wacc and terminal_growth a dcf request is answered with
ReqWacc == BodyGet(inp.req.body, "wacc", Q(10, 100))
ReqTerminalGrowth == BodyGet(inp.req.body, "terminal_growth", Q(2, 100))

\* C1: every dcf request with wacc <= terminal_growth (equality included)
\* fails with an explicit typed domain error, and no response carries a
\* negative enterprise_value or terminal_value.
C1_DomainError ==
    (out.fn = "dcf" /\ inp.req.bodyOk /\ inp.req.pairFound) =>
        /\ QLe(ReqWacc, ReqTerminalGrowth) =>
               /\ out.ret.kind = "error"
               /\ out.ret.raised = "DomainError"
        /\ out.ret.kind = "ok" =>
               /\ QLe(QZero, out.ret.enterprise_value)
               /\ QLe(QZero, out.ret.terminal_value)

\* the enterprise value of the base case: the five projected flows of the
\* base profile at growth_rate, valued at wacc and terminal_growth
BaseCaseValue ==
    DcfValue(project_cash_flows(GridArg("dict", inp.fins), inp.rates.growth_rate, 5)
                 .val.v.projected_fcfs,
             inp.rates.wacc, inp.rates.terminal_growth, 5)

\* C2: for every base profile, growth_rate, wacc and terminal_growth the
\* sensitivity grid is produced and its centre cell values[2][2] equals the
\* base-case enterprise value for the same inputs.
C2_GridCentre ==
    (/\ out.fn = "generate_dcf_sensitivity_grid"
     /\ out.style = "dict"
     /\ QLt(inp.rates.terminal_growth, inp.rates.wacc)) =>
        /\ Returned(out.ret)
        /\ Len(out.ret.val.values) = 5
        /\ out.ret.val.values[3][3] = Fix(BaseCaseValue.val.enterprise_value, 1)

InUnit(q) == 0 <= q[1] /\ q[1] <= q[2]

\* C3: for every statement history, growth_rate and wacc,
\* calculate_dcf_confidence returns overall_confidence, data_quality,
\* stability, growth_credibility and risk_assessment within [0,1]; it never
\* raises.
C3_ConfidenceInUnit ==
    out.fn = "calculate_dcf_confidence" =>
        /\ Returned(out.ret)
        /\ InUnit(out.ret.val.overall_confidence)
        /\ InUnit(out.ret.val.data_quality)
        /\ InUnit(out.ret.val.stability)
        /\ InUnit(out.ret.val.growth_credibility)
        /\ InUnit(out.ret.val.risk_assessment)

\* the ranking run that has finished for an acquirer of the store
RunDone == run.pc = "done" /\ run.found

\* the targets of a returned ranking, in order
Ranked == [i \in 1..Len(run.ret.val) |-> run.ret.val[i].target]

\* C4: for every acquirer, candidate universe and top_k the ranking run
\* returns a sequence that is sorted strictly descending by score, holds no
\* candidate twice, holds only candidates of the universe, and has length
\* min(top_k, number of scored candidates).
C4_RankingSorted ==
    RunDone =>
        /\ Returned(run.ret)
        /\ \A i, j \in 1..Len(run.ret.val) :
               i < j => /\ QLt(run.ret.val[j].score, run.ret.val[i].score)
                        /\ Ranked[i] # Ranked[j]
        /\ \A i \in 1..Len(run.ret.val) :
               \E k \in 1..Len(run.candidates) : run.candidates[k] = Ranked[i]
        /\ Len(run.ret.val) = Min2(run.top, Len(run.candidates))

\* the candidates whose score_pair call raised during the run
FailedCandidates ==
    {run.attempts[i].target : i \in {k \in 1..Len(run.attempts) :
                                        ~Returned(run.attempts[k].ret)}}

\* C5: when score_pair raises for a candidate during a ranking run, the run
\* does not abort: it returns, every candidate was attempted, and what it
\* returns are the other candidates (the failing one excluded).
C5_FaultIsolation ==
    (RunDone /\ FailedCandidates # {}) =>
        /\ Returned(run.ret)
        /\ \A k \in 1..Len(run.candidates) :
               \E i \in 1..Len(run.attempts) :
                   run.attempts[i].target = run.candidates[k]
        /\ \A i \in 1..Len(run.ret.val) : Ranked[i] \notin FailedCandidates
        /\ Len(run.ret.val) =
               Min2(run.top, Len(run.candidates) - Cardinality(FailedCandidates))

\* a peer with market data whose most recent income statement has
\* revenue > 0 and EBITDA > 0
Positive(entries, key) ==
    \E i \in 1..Len(entries) :
        entries[i].k = key /\ entries[i].ty = "num" /\ entries[i].v > 0

UsablePeer(c) ==
    /\ c.md.ok
    /\ c.fin.has
    /\ Positive(c.fin.top, "revenue")
    /\ Positive(c.fin.top, "ebitda")

\* the peers of the request's target: same sector, market cap within
\* 0.3x-3.0x of the target's (none when the target's market cap is unknown)
UsablePeers ==
    {i \in 1..Len(inp.req.others) :
        /\ IsComparable(inp.req.others[i], inp.req.target)
        /\ UsablePeer(inp.req.others[i])}

NoComparablesFailure(resp) ==
    /\ resp.status = 404
    /\ resp.error \in {"No comparable companies found", "Could not calculate multiples"}

\* C6: whenever the set of usable peers of an existing pair's target is
\* empty, the comps valuation ends in an explicit no-comparables failure and
\* produces no enterprise_value.
C6_NoComparables ==
    (out.fn = "comps" /\ inp.req.pairFound /\ UsablePeers = {}) =>
        /\ out.ret.kind # "ok"
        /\ NoComparablesFailure(out.ret)

\* the statements calculate_base_fcf considers: the first three
Considered(fins) == SubSeq(fins, 1, Min2(Len(fins), 3))

NoRevenue(fins) ==
    \A i \in 1..Len(Considered(fins)) : ~Positive(ValuesOf(fins[i]), "Revenue")

\* C7: calculate_base_fcf returns base_fcf, ebit_margin, capex_ratio,
\* fcf_margin and stability_score all 0 for an empty statement list and
\* whenever no considered statement has Revenue > 0.
C7_ZerosOnNoData ==
    (out.fn = "calculate_base_fcf" /\ NoRevenue(inp.fins)) =>
        /\ Returned(out.ret)
        /\ out.ret.val.base_fcf = QZero
        /\ out.ret.val.ebit_margin = QZero
        /\ out.ret.val.capex_ratio = QZero
        /\ out.ret.val.fcf_margin = QZero
        /\ out.ret.val.stability_score = QZero

\* two statements, neither with positive Revenue, one with operating income
C7_Witness ==
    /\ out.fn = "calculate_base_fcf"
    /\ Len(inp.fins) = 2
    /\ NoRevenue(inp.fins)
    /\ \E i \in 1..2 : Positive(ValuesOf(inp.fins[i]), "Operating Income")
    /\ out.ret.val = FcfZeros

\* C8: for positive market caps with r = tgt_cap/acq_cap, _size_score is 0
\* for r < 0.05 or r > 0.70, 1 for 0.10 <= r <= 0.50, (r - 0.05)/0.05 for
\* 0.05 <= r < 0.10 and 1 - (r - 0.50)/0.20 for 0.50 < r <= 0.70; it is
\* always within [0,1]; (100,30) gives 1, (100,2) and (100,80) give 0.
C8_SizeScorePiecewise ==
    (out.fn = "_size_score" /\ inp.acq > 0 /\ inp.tgt > 0) =>
        LET a == inp.acq
            t == inp.tgt
            n == out.ret.val[1]
            d == out.ret.val[2]
        IN  /\ Returned(out.ret)
            /\ d > 0 /\ 0 <= n /\ n <= d
            /\ (20 * t < a \/ 10 * t > 7 * a) => n = 0
            /\ (10 * t >= a /\ 2 * t <= a) => n = d
            /\ (20 * t >= a /\ 10 * t < a) => n * a = (20 * t - a) * d
            /\ (2 * t > a /\ 10 * t <= 7 * a) => 2 * n * a = (7 * a - 10 * t) * d
            /\ (a = 100 /\ t = 30) => n = d
            /\ (a = 100 /\ t \in {2, 80}) => n = 0

\* a call in the upper transition band: 60% of the acquirer scores 1/2
C8_Witness ==
    /\ out.fn = "_size_score"
    /\ inp.acq = 100 /\ inp.tgt = 60
    /\ out.ret.val = <<1, 2>>

InGrowthRange(q) == -q[2] <= 2 * q[1] /\ q[1] <= q[2]

\* C9: the revenue_growth, revenue_cagr and ebitda_growth entries returned
\* by _calculate_growth_metrics (on each return path) and the result of
\* _calculate_historical_growth lie within [-0.5, 1.0].
C9_GrowthClamped ==
    /\ (out.fn = "_calculate_growth_metrics" /\ Returned(out.ret)) =>
           /\ InGrowthRange(out.ret.val.revenue_growth)
           /\ InGrowthRange(out.ret.val.revenue_cagr)
           /\ InGrowthRange(out.ret.val.ebitda_growth)
    /\ out.fn = "_calculate_historical_growth" => InGrowthRange(out.ret.val)

\* revenue 2 -> 8 in one year: raw growth and CAGR of 300% come back as 1.0
C9_Witness ==
    /\ out.fn = "_calculate_growth_metrics"
    /\ inp.fins = <<Stmt(2023, <<Num("Revenue", 8)>>),
                    Stmt(2022, <<Num("Revenue", 2)>>)>>
    /\ Returned(out.ret)
    /\ out.ret.val.revenue_growth = <<1, 1>>
    /\ out.ret.val.revenue_cagr = <<1, 1>>

\* two logged score_pair calls for the same pair with the same stored
\* statements of both companies (market caps never change)
SameInputs(e1, e2) ==
    /\ e1.acquirer = e2.acquirer /\ e1.target = e2.target
    /\ e1.acq_stored = e2.acq_stored /\ e1.tgt_stored = e2.tgt_stored

\* C10: two score_pair calls for the same acquirer and target with
\* unchanged attributes and unchanged stored statements return the identical
\* score and identical subscores, whatever was scored in between.
C10_RescoreIdempotent ==
    \A i, j \in 1..Len(calls) :
        (i < j /\ SameInputs(calls[i], calls[j])) =>
            /\ Returned(calls[i].ret) /\ Returned(calls[j].ret)
            /\ calls[i].ret.val = calls[j].ret.val

\* C11: after any sequence of ranking runs the store holds at most one
\* DealPair per (acquirer, target), and the most recent run for a stored
\* acquirer has returned pairs each of which has a DealPair carrying exactly
\* the score and subscores that run returned.
C11_OverwriteNotDuplicate ==
    /\ \A p, q \in dealPairs :
           (p.acquirer = q.acquirer /\ p.target = q.target) => p = q
    /\ RunDone =>
           /\ Returned(run.ret)
           /\ \A i \in 1..Len(run.ret.val) :
                  \E p \in dealPairs :
                      /\ p.acquirer = run.acquirer
                      /\ p.target = run.ret.val[i].target
                      /\ p.score = run.ret.val[i].score
                      /\ p.subs = run.ret.val[i].subscores

\* the lru_cache of a process that has fetched nothing yet
ColdCache == [c \in Companies |-> NotCached]

\* the outcome of score_pair for the pair of a logged call when it is scored
\* on its own, from the statements stored at the time of the call
ScoredAlone(e) ==
    score_pair(e.acquirer, e.target, ColdCache,
               [c \in {e.acquirer, e.target} |->
                   IF c = e.acquirer THEN e.acq_stored ELSE e.tgt_stored]).ret

\* C12: the ranking a run returns depends only on the acquirer, the
\* candidates in their input order and the stored data: the run returns, and
\* each returned candidate carries the score and subscores its pair gets when
\* scored on its own, whatever was scored before it.
C12_OrderIndependent ==
    RunDone =>
        /\ Returned(run.ret)
        /\ \A i \in 1..Len(run.ret.val) :
               \E k \in 1..Len(run.attempts) :
                   /\ run.attempts[k].target = run.ret.val[i].target
                   /\ Returned(ScoredAlone(run.attempts[k]))
                   /\ ScoredAlone(run.attempts[k]).val.score = run.ret.val[i].score
                   /\ ScoredAlone(run.attempts[k]).val.subs = run.ret.val[i].subscores

\* the total of the four weighted sub-scores of a returned score
WeightedTotal(subs) ==
    QMul(I(100),
         QAdd(QAdd(QMul(Q(40, 100), subs.size), QMul(Q(25, 100), subs.sector)),
              QAdd(QMul(Q(20, 100), subs.growth_synergy),
                   QMul(Q(15, 100), subs.market_position))))

\* C13: every score_pair call returns total = 100 x (0.4 size + 0.25 sector
\* + 0.2 growth_synergy + 0.15 market_position) with each of the four
\* sub-scores in [0, 1], so the score lies within [0, 100].
C13_ScoreRange ==
    \A i \in 1..Len(calls) :
        /\ Returned(calls[i].ret)
        /\ InUnit(calls[i].ret.val.subs.size)
        /\ InUnit(calls[i].ret.val.subs.sector)
        /\ InUnit(calls[i].ret.val.subs.growth_synergy)
        /\ InUnit(calls[i].ret.val.subs.market_position)
        /\ calls[i].ret.val.score = WeightedTotal(calls[i].ret.val.subs)
        /\ QLe(QZero, calls[i].ret.val.score)
        /\ QLe(calls[i].ret.val.score, I(100))

\* income statements (most recent first) with positive revenue that grows
\* from each year to the next and positive operating income
GrowingTarget(fins) ==
    /\ Len(fins) >= 2
    /\ \A i \in 1..Len(fins) :
           /\ Positive(ValuesOf(fins[i]), "Revenue")
           /\ Positive(ValuesOf(fins[i]), "Operating Income")
    /\ \A i \in 1..(Len(fins) - 1) :
           QLt(GetFloat(ValuesOf(fins[i + 1]), "Revenue").val,
               GetFloat(ValuesOf(fins[i]), "Revenue").val)

\* C14: for a target with positive, growing revenue and positive operating
\* income, calculate_base_fcf gives a strictly positive base FCF, and the
\* valuation at growth_rate 0.05 over 5 years, wacc 0.10 and terminal_growth
\* 0.02 gives a strictly positive enterprise_value with an
\* overall_confidence strictly between 0 and 1.
C14_EndToEnd ==
    (/\ out.fn = "dcf" /\ inp.req.bodyOk /\ inp.req.pairFound
     /\ GrowingTarget(inp.req.fins)
     /\ inp.req.body = [growth_rate |-> Q(5, 100)]) =>
        /\ QLt(QZero, calculate_base_fcf(inp.req.fins).base_fcf)
        /\ out.ret.kind = "ok"
        /\ QLt(QZero, out.ret.enterprise_value)
        /\ QLt(QZero, out.ret.confidence.overall_confidence)
        /\ QLt(out.ret.confidence.overall_confidence, QOne)

\* what dcf binds to projected_fcfs for the request under way
ReqYears == BodyGet(inp.req.body, "projection_years", 5)
ReqGrowth == BodyGet(inp.req.body, "growth_rate", Q(3, 100))
ReqProjection ==
    project_cash_flows(PyDict(calculate_base_fcf(inp.req.fins)), ReqGrowth, ReqYears)

\* C15: for every horizon N >= 1 the result of project_cash_flows, used as
\* the projected flows, is an ordered sequence of exactly N numbers,
\* indexable by position, and for a positive base FCF and a positive growth
\* rate its last flow is strictly greater than its first.
C15_ProjectionShape ==
    (out.fn = "dcf" /\ inp.req.bodyOk /\ inp.req.pairFound /\ ReqYears >= 1) =>
        /\ Returned(ReqProjection)
        /\ ReqProjection.val.ty = "list"
        /\ Len(ReqProjection.val.v) = ReqYears
        /\ (/\ QLt(QZero, calculate_base_fcf(inp.req.fins).base_fcf)
            /\ QLt(QZero, ReqGrowth)) =>
               QLt(ReqProjection.val.v[1], ReqProjection.val.v[ReqYears])

\* a missing or sparse statement history: fewer than two statements, or no
\* statement with any entry under "values"
Sparse(fins) ==
    Len(fins) < 2 \/ \A i \in 1..Len(fins) : ValuesOf(fins[i]) = <<>>

\* C16: for every missing or sparse statement history calculate_base_fcf,
\* calculate_dcf_confidence, assess_data_completeness and
\* _calculate_growth_metrics return a 0-valued or low-confidence result and
\* never raise.
C16_GracefulDegradation ==
    /\ (out.fn = "calculate_base_fcf" /\ Sparse(inp.fins)) =>
           /\ Returned(out.ret)
           /\ out.ret.val.stability_score = QZero
    /\ (out.fn = "_calculate_growth_metrics" /\ Sparse(inp.fins)) =>
           /\ Returned(out.ret)
           /\ out.ret.val.revenue_growth = QZero
           /\ out.ret.val.revenue_cagr = QZero
    /\ (out.fn = "calculate_dcf_confidence" /\ Sparse(inp.fins)) =>
           /\ Len(inp.fins) < 2 =>
                  QLe(assess_data_completeness(inp.fins).score, Q(1, 5))
           /\ Returned(out.ret)

\* C17: the financial-history cache lives for one ranking call only: every
\* score_pair call of a ranking run computes the growth metrics of both
\* companies from the statements stored at that time, never from a list
\* cached before a re-ingestion.
C17_CacheScope ==
    RunDone =>
        \A i \in 1..Len(run.attempts) :
            /\ run.attempts[i].acq_used = run.attempts[i].acq_stored
            /\ run.attempts[i].tgt_used = run.attempts[i].tgt_stored

\* a step of the scoring engine: a score_pair call or a ranking run
EngineStep == nruns' # nruns

C19_SectorTable ==
    out.fn = "_sector_score" =>
        /\ Returned(out.ret)
        /\ out.ret.val = SectorScoreSymmetric(inp.acq_sector, inp.tgt_sector,
                                              inp.acq_industry, inp.tgt_industry)

\* the place of a candidate in the candidate universe of the run
Place(c) == CHOOSE i \in 1..Len(run.candidates) : run.candidates[i] = c

\* the score the run gave a candidate
RunScore(c) ==
    run.attempts[CHOOSE i \in 1..Len(run.attempts) :
                     run.attempts[i].target = c].ret.val.score

\* C20: two candidates that receive equal scores in a ranking run appear in
\* the result in the same relative order as in the candidate universe, and
\* when the top_k cut falls between them the earlier one is the one kept.
C20_StableTies ==
    (RunDone /\ Len(run.candidates) >= 2) =>
        /\ Returned(run.ret)
        /\ \A i, j \in 1..Len(run.ret.val) :
               (i < j /\ run.ret.val[i].score = run.ret.val[j].score)
                   => Place(Ranked[i]) < Place(Ranked[j])
        /\ \A a, b \in 1..Len(run.candidates) :
               (/\ a < b
                /\ RunScore(run.candidates[a]) = RunScore(run.candidates[b])
                /\ \E j \in 1..Len(run.ret.val) : Ranked[j] = run.candidates[b])
                   => \E i \in 1..Len(run.ret.val) : Ranked[i] = run.candidates[a]

\* clamp to [0, 1]
ClampUnit(q) == QMax(QZero, QMin(QOne, q))

\* C21: for every target, score_pair computes growth_synergy as
\* 0.7 x CAGR + 0.3 x recent growth clamped to [0, 1], CAGR and recent growth
\* being the values _calculate_growth_metrics produces for the target.
C21_GrowthSynergy ==
    \A i \in 1..Len(calls) :
        LET g == _calculate_growth_metrics(calls[i].tgt_used) IN
        Returned(g) =>
            /\ Returned(calls[i].ret)
            /\ calls[i].ret.val.subs.growth_synergy =
                   ClampUnit(QAdd(QMul(Q(7, 10), g.val.revenue_cagr),
                                  QMul(Q(3, 10), g.val.revenue_growth)))

\* the statements calculate_base_fcf looks at all convert to numbers
Convertible(fins) ==
    \A i \in 1..Len(Considered(fins)) : YearData(fins[i]).tag # "raise"

\* the FCF of the included years of a statement list
IncludedFcf(fins) ==
    Field(KeepYears([i \in 1..Len(Considered(fins)) |-> YearData(fins[i])]), "fcf")

\* C22: calculate_base_fcf returns stability_score =
\* 1 - min(1, stddev(fcf)/|mean fcf|) whenever at least two years are
\* included and the mean FCF is not zero, positive or negative, and 0
\* otherwise; the value is within [0, 1] and is 1 exactly when all included
\* years have the same FCF.
C22_StabilityScore ==
    (out.fn = "calculate_base_fcf" /\ Convertible(inp.fins)) =>
        LET fcf == IncludedFcf(inp.fins)
            score == out.ret.val.stability_score
        IN  /\ Returned(out.ret)
            /\ InUnit(score)
            /\ IF Len(fcf) >= 2 /\ Mean(fcf) # QZero
               THEN /\ score = QSub(QOne, QMin(QOne, QDiv(Std(fcf), QAbs(Mean(fcf)))))
                    /\ score = QOne <=> \A i \in 1..Len(fcf) : fcf[i] = fcf[1]
               ELSE score = QZero

\* a field of a statement's values, absent fields counted as 0
FieldOrZero(fin, key) ==
    LET e == ValuesOf(fin)
    IN  IF HasKey(e, key)
        THEN I(e[CHOOSE i \in 1..Len(e) : e[i].k = key].v)
        ELSE QZero

\* EBIT x 0.75 + D&A - |CapEx| - change in working capital of one statement
StatementFcf(fin) ==
    QSub(QSub(QAdd(QMul(FieldOrZero(fin, "Operating Income"), Q(75, 100)),
                   FieldOrZero(fin, "Depreciation & Amortization")),
              QAbs(FieldOrZero(fin, "Capital Expenditure"))),
         FieldOrZero(fin, "Change in Working Capital"))

\* the places among the first three statements with Revenue > 0
IncludedYears(fins) ==
    {i \in 1..Len(Considered(fins)) : Positive(ValuesOf(fins[i]), "Revenue")}

RECURSIVE SumOver(_, _)
\* the sum of the statement FCFs at the places S
SumOver(fins, S) ==
    IF S = {} THEN QZero
    ELSE LET i == CHOOSE j \in S : TRUE
         IN  QAdd(StatementFcf(fins[i]), SumOver(fins, S \ {i}))

ReqFlows == ReqProjection.val.v.projected_fcfs

\* C24: for wacc > terminal_growth a dcf request is answered with
\* enterprise_value = sum of fcf_i x (1 + wacc)^(-i) over the N projected
\* flows plus terminal_value x (1 + wacc)^(-N), where terminal_value =
\* fcf_N x (1 + terminal_growth)/(wacc - terminal_growth); the value is a
\* function of the inputs and is not negative when no flow is negative.
C24_DcfValue ==
    (/\ out.fn = "dcf" /\ inp.req.bodyOk /\ inp.req.pairFound
     /\ ReqYears >= 1
     /\ QLt(ReqTerminalGrowth, ReqWacc)) =>
        /\ out.ret.kind = "ok"
        /\ out.ret.terminal_value =
               DcfValue(ReqFlows, ReqWacc, ReqTerminalGrowth, ReqYears).val.terminal_value
        /\ out.ret.enterprise_value =
               DcfValue(ReqFlows, ReqWacc, ReqTerminalGrowth, ReqYears).val.enterprise_value
        /\ (\A i \in 1..Len(ReqFlows) : QLe(QZero, ReqFlows[i]))
               => QLe(QZero, out.ret.enterprise_value)

\* the multiples of all usable peers of the request's target
PeerMultiples == Multiples(Comparables(inp.req.others, inp.req.target))

\* the target's most recent income statement has revenue and EBITDA figures
TargetFigures ==
    /\ inp.req.target.fin.has
    /\ inp.req.target.fin.top # <<>>
    /\ Returned(GetFloat(inp.req.target.fin.top, "revenue"))
    /\ Returned(GetFloat(inp.req.target.fin.top, "ebitda"))

\* C25: with n >= 1 usable peers the comps enterprise value is
\* 0.4 x (target revenue x median peer EV/Revenue) +
\* 0.6 x (target EBITDA x median peer EV/EBITDA), the medians taken over all
\* usable peers, and the confidence is min(1, n/5): within (0, 1] and 1
\* exactly when n >= 5.
C25_CompsValue ==
    (/\ out.fn = "comps" /\ inp.req.pairFound
     /\ TargetFigures
     /\ PeerMultiples # <<>>) =>
        LET n == Len(PeerMultiples)
            revenue == GetFloat(inp.req.target.fin.top, "revenue").val
            ebitda == GetFloat(inp.req.target.fin.top, "ebitda").val
        IN  /\ out.ret.kind = "ok"
            /\ out.ret.enterprise_value =
                   QAdd(QMul(Q(4, 10),
                             QMul(revenue, Median(Field(PeerMultiples, "ev_revenue")))),
                        QMul(Q(6, 10),
                             QMul(ebitda, Median(Field(PeerMultiples, "ev_ebitda")))))
            /\ out.ret.confidence = QMin(QOne, Q(n, 5))
            /\ QLt(QZero, out.ret.confidence) /\ QLe(out.ret.confidence, QOne)
            /\ out.ret.confidence = QOne <=> n >= 5

\* the base profile project_cash_flows was called with
BaseProfile == calculate_base_fcf(inp.fins)

\* growth_rate x (0.7 + 0.3 x stability_score)
InitialGrowth ==
    Fix(QMul(inp.rates.growth_rate,
             QAdd(Q(7, 10), QMul(Q(3, 10), Fix(BaseProfile.stability_score, 4)))), 4)

\* base_fcf x (1 + g_y)^y x (1 + margin delta_y) x (1 - capex delta_y) with
\* g_y = InitialGrowth x (1 - 0.02 y), the deltas being those of the margin
\* trend and the capex forecast of the projection p against the base profile
ClaimedFlow(p, y) ==
    LET g == Fix(QMul(InitialGrowth, QSub(QOne, Q(2 * y, 100))), 4)
        margin_delta == QSub(p.margin_trends[y], BaseProfile.ebit_margin)
        capex_delta == Fix(QSub(p.capex_forecast[y], BaseProfile.capex_ratio), 4)
    IN  FMul(FMul(FMul(Fix(BaseProfile.base_fcf, 2), FPow(QAdd(QOne, g), y)),
                  QAdd(QOne, margin_delta)),
             QSub(QOne, capex_delta))

\* C26: for every base profile, growth rate and horizon the flow of year y
\* that project_cash_flows produces is
\* max(0, base_fcf x (1 + g_y)^y x (1 + margin delta_y) x (1 - capex delta_y))
\* with g_y = growth_rate x (0.7 + 0.3 x stability_score) x (1 - 0.02 y), so
\* no flow is negative, and the recorded terminal_growth is half of the
\* initial effective growth.
C26_ProjectedFlows ==
    out.fn = "project_cash_flows" =>
        /\ Returned(out.ret)
        /\ LET p == out.ret.val.v IN
           /\ Len(p.projected_fcfs) = out.years
           /\ \A y \in 1..out.years :
                  /\ p.projected_fcfs[y] = QMax(QZero, ClaimedFlow(p, y))
                  /\ QLe(QZero, p.projected_fcfs[y])
           /\ p.growth_assumptions.initial_growth = InitialGrowth
           /\ QMul(I(2), p.growth_assumptions.terminal_growth) = InitialGrowth

\* five flows projected from a positive base FCF with expanding margins and
\* a capex ratio, at a stability strictly between 0 and 1
C26_Witness ==
    /\ out.fn = "project_cash_flows"
    /\ out.years = 5
    /\ QLt(QZero, BaseProfile.base_fcf)
    /\ QLt(QZero, BaseProfile.capex_ratio)
    /\ QLt(QZero, BaseProfile.stability_score)
    /\ QLt(BaseProfile.stability_score, QOne)
    /\ QLt(QZero, out.ret.val.v.growth_assumptions.margin_expansion)
    /\ QLt(out.ret.val.v.projected_fcfs[1], out.ret.val.v.projected_fcfs[5])

\* C27: for every acquirer/target pair with a positive acquirer market cap,
\* score_pair's market_position is 1 - |0.3 - tgt_cap/acq_cap| clamped to
\* [0, 1]; it is 1 exactly when the target's market cap is 30% of the
\* acquirer's.
C27_MarketPosition ==
    \A i \in 1..Len(calls) :
        CapOrZero(calls[i].acquirer) > 0 =>
            LET acq_cap == CapOrZero(calls[i].acquirer)
                tgt_cap == CapOrZero(calls[i].target)
            IN  /\ Returned(calls[i].ret)
                /\ calls[i].ret.val.subs.market_position =
                       ClampUnit(QSub(QOne, QAbs(QSub(Q(3, 10), Q(tgt_cap, acq_cap)))))
                /\ InUnit(calls[i].ret.val.subs.market_position)
                /\ calls[i].ret.val.subs.market_position = QOne
                       <=> 10 * tgt_cap = 3 * acq_cap

\* the requests of ip passed on at a time within (a, a + window_seconds]
PassedWithin(ip, a) ==
    {i \in 1..Len(admitted[ip]) :
        a < admitted[ip][i] /\ admitted[ip][i] <= a + window_seconds}

\* no window of window_seconds holds more than max_requests requests of
\* one ip that were passed on
WindowBound ==
    \A ip \in ClientIps, a \in (0 - window_seconds)..MaxTime :
        Cardinality(PassedWithin(ip, a)) <= max_requests

\* what a dispatch step for the client `ip` does
LimitedStep(ip) ==
    /\ reply'.status = 200 <=>
           Cardinality({i \in 1..Len(admitted[ip]) :
                           now - admitted[ip][i] < window_seconds}) < max_requests
    /\ reply'.status = 429 =>
           /\ Len(requests'[ip]) <= Len(requests[ip])
           /\ admitted' = admitted
    /\ \A i \in 1..Len(requests'[ip]) : now - requests'[ip][i] < window_seconds
    /\ \A other \in ClientIps \ {ip} :
           /\ requests'[other] = requests[other]
           /\ admitted'[other] = admitted[other]

\* C28: RateLimitMiddleware passes on at most max_requests requests of one
\* client ip within any window of window_seconds (open at its start, closed
\* at its end); a request is rejected with
\* 429 exactly when max_requests requests of its ip were passed on within
\* the last window_seconds, timestamps older than that being dropped before
\* the check; a rejected request is not recorded, and the requests of one ip
\* leave the record of every other ip alone.
C28_RateLimit ==
    /\ []WindowBound
    /\ [][reply'.n # reply.n => LimitedStep(reply'.ip)]_vars

\* a client is rejected after it was passed on again once its first
\* max_requests requests had left the window
C28_Witness ==
    /\ reply.status = 429
    /\ Len(admitted[reply.ip]) > max_requests
    /\ Len(requests[reply.ip]) = max_requests

\* what a finished run leaves: the acquirer is no candidate, was not scored
\* and is not returned, no more than `top` items are returned, and no
\* DealPair row pairs a company with itself
UniverseBound ==
    RunDone =>
        /\ \A i \in 1..Len(run.candidates) : run.candidates[i] # run.acquirer
        /\ \A i \in 1..Len(run.attempts) : run.attempts[i].target # run.acquirer
        /\ Returned(run.ret) =>
               /\ Len(run.ret.val) <= run.top
               /\ \A i \in 1..Len(run.ret.val) : Ranked[i] # run.acquirer
        /\ \A p \in dealPairs : p.target # p.acquirer

\* every DealPair row a step creates or updates is a returned item of the
\* run that made the step
PersistsReturnedOnly ==
    \A p \in dealPairs' \ dealPairs :
        /\ run'.pc = "done" /\ run'.found /\ Returned(run'.ret)
        /\ p.acquirer = run'.acquirer
        /\ \E i \in 1..Len(run'.ret.val) :
               /\ run'.ret.val[i].target = p.target
               /\ run'.ret.val[i].score = p.score

C30_UnknownAcquirer ==
    /\ [](run.pc = "done" => run.session = "closed")
    /\ []((run.pc = "done" /\ ~run.found) =>
             /\ run.ret = Raise("ValueError")
             /\ run.attempts = <<>>)
    /\ [][(run'.pc = "done" /\ ~run'.found) => dealPairs' = dealPairs]_vars

\* an unknown ticker was asked for in a store of three companies, after a
\* run for a known acquirer had left through an exception
C30_Witness ==
    /\ run.pc = "done"
    /\ ~run.found
    /\ run.session = "closed"
    /\ Cardinality(DOMAIN financials) = 3
    /\ \E i \in 1..Len(calls) : ~Returned(calls[i].ret)

====
